---------------------------- MODULE Spec2Model ----------------------------
(***************************************************************************)
(* Request orchestrator of the fitness-coaching backend (src/index.js).    *)
(* Every route handler is modelled from its code.  The hosted store is the *)
(* environment: a table is a bag or a sequence of rows, and every store    *)
(* call of a handler answers either with data or with an error, chosen     *)
(* nondeterministically.  Handlers whose awaits matter for interleaving    *)
(* (like toggle, contract-settings upsert, login) are split at the awaits. *)
(***************************************************************************)
EXTENDS Integers, Sequences, FiniteSets, Bags, TLC

VARIABLES
    curtidas,     \* table curtidas: bag of rows [post_id, usuario_email]
    likeReq,      \* in-flight POST /posts/:id/curtir requests, one per slot
    likeLog,      \* per (post, user): the completed toggle calls, in order
    getResp,      \* the answer a like handler has just sent
    contract_settings, \* table contract_settings: bag of rows
    csSchema,     \* what the operator's schema holds for contract_settings
    csReq,        \* in-flight POST /contract-settings requests, one per slot
    csLog,        \* per (professor_email, aluno_email): the completed calls
    csResp,       \* the answer POST /contract-settings has just sent
    users,        \* table users: set of rows, id assigned by the store
    alunos,       \* table alunos (student profiles): bag of rows
    mensagens,    \* table mensagens: bag of rows [de, para, mensagem]
    userNextId,   \* the id the store gives to the next users row
    now,          \* the clock read by new Date()
    patches,      \* requests that write a notice (PATCH /alunos/:id/contract,
                  \* POST /treinos/:id/concluir) answered so far
    progresso,    \* table progresso: bag of rows [aluno_email, treino_id]
    userResp,     \* the answer a users handler has just sent
    loginStore,   \* per login run: the users table that run finds
    loginReq,     \* per login run: the POST /login request and where it stands
    loginResp,    \* per login run: the answer POST /login sent
    posts,        \* table posts: the ids, newest first
    comentarios,  \* table comentarios: per post, the number of its rows
    feedResp,     \* the answer GET /posts/feed/:limit/:offset has just sent
    stubReq,      \* requests served with the stub client, one per slot
    stubResp,     \* per slot: the answer such a request got
    contracts,    \* table contracts: set of rows, id assigned by the store
    contractNextId, \* the id the store gives to the next contracts row
    files,        \* the files on the server's disk, by absolute path
    contractResp, \* the answer a contracts handler has just sent
    consultorias, \* table consultorias: bag of rows [client_id, tipo]
    admin_contracts, \* table admin_contracts: bag of rows
    optResp,      \* the answer a handler reading an optional table has just sent
    produtos_loja, \* table produtos_loja: set of rows [id, ordem]
    prodReq,      \* in-flight POST /produtos requests, one per slot
    prodResp      \* per slot: the answer POST /produtos sent

likeVars == <<curtidas, likeReq, likeLog, getResp>>
csVars == <<contract_settings, csSchema, csReq, csLog, csResp>>
userVars == <<users, alunos, mensagens, userNextId, now, patches, progresso, userResp>>
loginVars == <<loginStore, loginReq, loginResp>>
feedVars == <<posts, comentarios, feedResp>>
stubVars == <<stubReq, stubResp>>
contractVars == <<contracts, contractNextId, files, contractResp>>
optVars == <<consultorias, admin_contracts, optResp>>
prodVars == <<produtos_loja, prodReq, prodResp>>
vars == <<likeVars, csVars, userVars, loginVars, feedVars, stubVars, contractVars, optVars,
          prodVars>>

\* what the handlers of one group leave alone
notLikeVars == <<csVars, userVars, loginVars, feedVars, stubVars, contractVars, optVars, prodVars>>
notCsVars == <<likeVars, userVars, loginVars, feedVars, stubVars, contractVars, optVars, prodVars>>
notUserVars == <<likeVars, csVars, loginVars, feedVars, stubVars, contractVars, optVars, prodVars>>
notLoginVars == <<likeVars, csVars, userVars, feedVars, stubVars, contractVars, optVars, prodVars>>
notFeedVars == <<likeVars, csVars, userVars, loginVars, stubVars, contractVars, optVars, prodVars>>
notStubVars == <<likeVars, csVars, userVars, loginVars, feedVars, contractVars, optVars, prodVars>>
notContractVars == <<likeVars, csVars, userVars, loginVars, feedVars, stubVars, optVars, prodVars>>
notProdVars == <<likeVars, csVars, userVars, loginVars, feedVars, stubVars, contractVars, optVars>>
notOptVars == <<likeVars, csVars, loginVars, feedVars, stubVars, contractVars, prodVars>>

-----------------------------------------------------------------------------
(* Bounds *)

\* toggle calls started in one run
MaxCalls == 3
\* contract-settings calls started in one run
MaxCsCalls == 2
\* users rows created in one run
MaxUsers == 2
\* last instant of the clock
MaxNow == 2
\* PATCH /alunos/:id/contract calls in one run
MaxPatch == 2
\* rows of the table admin_contracts
MaxAdminContracts == 1
\* requests taken past their validation in one run of the required-field
\* handlers
MaxAccepted == 2
\* rows of the table posts
MaxPosts == 3
\* POST /contracts calls in one run
MaxContracts == 1
\* rows of the table produtos_loja, those being created included
MaxProdutos == 3

-----------------------------------------------------------------------------
(* Strings are sequences of characters; the two JS conversions the         *)
(* handlers use are modelled character by character.                       *)

LowerChar(c) ==
    CASE c = "A" -> "a"
      [] c = "B" -> "b"
      [] c = "P" -> "p"
      [] c = "X" -> "x"
      [] OTHER -> c

\* String.prototype.toLowerCase
ToLowerCase(s) == [i \in 1..Len(s) |-> LowerChar(s[i])]

RECURSIVE TrimStart(_)
TrimStart(s) == IF s # <<>> /\ Head(s) = " " THEN TrimStart(Tail(s)) ELSE s

RECURSIVE TrimEnd(_)
TrimEnd(s) ==
    IF s # <<>> /\ s[Len(s)] = " " THEN TrimEnd(SubSeq(s, 1, Len(s) - 1)) ELSE s

\* String.prototype.trim
Trim(s) == TrimEnd(TrimStart(s))

IsDigit(c) == c \in {"0", "1", "2", "3", "4", "5", "6", "7", "8", "9"}

DigitVal(c) ==
    CASE c = "0" -> 0 [] c = "1" -> 1 [] c = "2" -> 2 [] c = "3" -> 3
      [] c = "4" -> 4 [] c = "5" -> 5 [] c = "6" -> 6 [] c = "7" -> 7
      [] c = "8" -> 8 [] c = "9" -> 9

RECURSIVE DigitsPrefix(_)
DigitsPrefix(s) ==
    IF s # <<>> /\ IsDigit(Head(s)) THEN <<Head(s)>> \o DigitsPrefix(Tail(s)) ELSE <<>>

RECURSIVE DigitsValue(_)
DigitsValue(ds) ==
    IF ds = <<>> THEN 0
    ELSE DigitsValue(SubSeq(ds, 1, Len(ds) - 1)) * 10 + DigitVal(ds[Len(ds)])

\* parseInt(s, 10): leading whitespace, a sign, the longest run of digits;
\* <<>> stands for NaN and <<n>> for the number n
ParseInt(s) ==
    LET t == TrimStart(s)
        signed == t # <<>> /\ t[1] \in {"-", "+"}
        ds == DigitsPrefix(IF signed THEN Tail(t) ELSE t)
    IN IF ds = <<>> THEN <<>>
       ELSE IF signed /\ t[1] = "-" THEN <<0 - DigitsValue(ds)>> ELSE <<DigitsValue(ds)>>

\* the decimal spelling of a natural number
RECURSIVE ToDecimal(_)
ToDecimal(n) ==
    LET d == <<"0", "1", "2", "3", "4", "5", "6", "7", "8", "9">>[(n % 10) + 1]
    IN IF n < 10 THEN <<d>> ELSE ToDecimal(n \div 10) \o <<d>>

\* s.split(':')[0]
RECURSIVE BeforeColon(_)
BeforeColon(s) ==
    IF s = <<>> \/ Head(s) = ":" THEN <<>> ELSE <<Head(s)>> \o BeforeColon(Tail(s))

-----------------------------------------------------------------------------
(* Store outcomes: every store call answers with data or with an error.    *)

Outcomes == {"ok", "err"}

\* .maybeSingle(): the row when exactly one matches; null when none matches;
\* an error, hence null data, when several match or the call fails
MaybeSingle(n, out) == out = "ok" /\ n = 1

-----------------------------------------------------------------------------
(* Likes: POST /posts/:id/curtir and GET /posts/:id/curtido-por            *)

\* the posts of the model, and the two toggle requests that can be in flight
PostIds == {1}
Slots == {1, 2}

\* usuario_email as sent by clients; <<>> is an absent or empty value
UsuarioEmails == {<<>>, <<"a">>, <<"A">>, <<"b">>}

LikeUsers == {ToLowerCase(e) : e \in UsuarioEmails \ {<<>>}}
LikePairs == PostIds \X LikeUsers

LikeRow(p, u) == [post_id |-> p, usuario_email |-> u]

\* rows a .eq('post_id', p).eq('usuario_email', u) filter selects
LikeRows(p, u) == CopiesIn(LikeRow(p, u), curtidas)

\* select('*', {count: 'exact', head: true}).eq('post_id', p)
LikeCount(table, p) ==
    LET rows == {r \in BagToSet(table) : r.post_id = p}
        RECURSIVE Sum(_)
        Sum(S) == IF S = {} THEN 0
                  ELSE LET r == CHOOSE x \in S : TRUE
                       IN CopiesIn(r, table) + Sum(S \ {r})
    IN Sum(rows)

IdleLike == [pc |-> "idle", post_id |-> 0, usuario_email |-> <<>>,
             before |-> 0, overlapped |-> FALSE, faulted |-> FALSE]

\* the answer being delivered; none while a handler is between two awaits
NoResp == [kind |-> "none", post_id |-> 0, usuario_email |-> <<>>,
           status |-> 0, curtido |-> FALSE, n |-> 0, clean |-> FALSE]

SamePair(r, p, u) ==
    likeReq[r].pc # "idle" /\ likeReq[r].post_id = p /\ likeReq[r].usuario_email = u

LikeStarted ==
    LET RECURSIVE Tot(_)
        Tot(S) == IF S = {} THEN 0
                  ELSE LET k == CHOOSE x \in S : TRUE
                       IN Len(likeLog[k]) + Tot(S \ {k})
    IN Tot(LikePairs) + Cardinality({r \in Slots : likeReq[r].pc # "idle"})

\* lines 1543-1548: no usuario_email answers 400 and touches nothing
CurtirReject(p) ==
    /\ UNCHANGED <<curtidas, likeReq, likeLog>>
    /\ getResp' = [NoResp EXCEPT !.kind = "curtir", !.post_id = p, !.status = 400]

\* lines 1541-1549: the request is accepted and is about to read curtidas
CurtirStart(r, p, e) ==
    /\ likeReq[r].pc = "idle"
    /\ e # <<>>
    /\ LikeStarted < MaxCalls
    /\ LET u == ToLowerCase(e)
           busy == \E o \in Slots \ {r} : SamePair(o, p, u)
       IN likeReq' = [o \in Slots |->
                        IF o = r
                        THEN [pc |-> "select", post_id |-> p, usuario_email |-> u,
                              before |-> LikeRows(p, u),
                              overlapped |-> busy, faulted |-> FALSE]
                        ELSE IF SamePair(o, p, u)
                             THEN [likeReq[o] EXCEPT !.overlapped = TRUE]
                             ELSE likeReq[o]]
    /\ getResp' = NoResp
    /\ UNCHANGED <<curtidas, likeLog>>

\* lines 1550-1558: read the existing like; the read's error is not looked at
CurtirSelect(r, out) ==
    /\ likeReq[r].pc = "select"
    /\ LET q == likeReq[r]
           existente == MaybeSingle(LikeRows(q.post_id, q.usuario_email), out)
       IN likeReq' = [likeReq EXCEPT ![r].pc = IF existente THEN "delete" ELSE "insert",
                                     ![r].faulted = (out = "err")]
    /\ getResp' = NoResp
    /\ UNCHANGED <<curtidas, likeLog>>

LikeEntry(q, status, curtido, faulted, table) ==
    [before |-> q.before,
     after |-> CopiesIn(LikeRow(q.post_id, q.usuario_email), table),
     postAfter |-> LikeCount(table, q.post_id),
     status |-> status, curtido |-> curtido,
     overlapped |-> q.overlapped, faulted |-> faulted]

CurtirFinish(r, status, curtido, faulted, table) ==
    LET q == likeReq[r]
        k == <<q.post_id, q.usuario_email>>
    IN /\ curtidas' = table
       /\ likeLog' = [likeLog EXCEPT
                        ![k] = Append(@, LikeEntry(q, status, curtido, faulted, table))]
       /\ likeReq' = [likeReq EXCEPT ![r] = IdleLike]
       /\ getResp' = [NoResp EXCEPT !.kind = "curtir", !.post_id = q.post_id,
                                    !.usuario_email = q.usuario_email,
                                    !.status = status, !.curtido = curtido]

\* mutant: the delete filters on post_id alone
DeleteLikesOfPost(p, u) ==
    [x \in {y \in BagToSet(curtidas) : y.post_id # p} |-> curtidas[x]]

\* mutant: the delete matches no row
DeleteNoLike(p, u) == curtidas

\* delete().eq('post_id', ..).eq('usuario_email', ..): every matching row goes
DeleteLikes(p, u) ==
    [x \in BagToSet(curtidas) \ {LikeRow(p, u)} |-> curtidas[x]]

\* lines 1558-1568 and 1583-1586: unlike
CurtirDelete(r, out) ==
    /\ likeReq[r].pc = "delete"
    /\ LET q == likeReq[r]
       IN IF out = "ok"
          THEN CurtirFinish(r, 200, FALSE, q.faulted,
                            DeleteLikes(q.post_id, q.usuario_email))
          ELSE CurtirFinish(r, 500, FALSE, TRUE, curtidas)

\* mutant: the insert replaces the like row of the pair
InsertLikeOnce(p, u) == DeleteLikes(p, u) (+) SetToBag({LikeRow(p, u)})

\* insert([{post_id, usuario_email, criado_em}])
InsertLike(p, u) == curtidas (+) SetToBag({LikeRow(p, u)})

\* lines 1569-1586: like
CurtirInsert(r, out) ==
    /\ likeReq[r].pc = "insert"
    /\ LET q == likeReq[r]
       IN IF out = "ok"
          THEN CurtirFinish(r, 200, TRUE, q.faulted,
                            InsertLike(q.post_id, q.usuario_email))
          ELSE CurtirFinish(r, 500, FALSE, TRUE, curtidas)

CleanLog(k) ==
    /\ \A i \in 1..Len(likeLog[k]) :
          ~likeLog[k][i].overlapped /\ ~likeLog[k][i].faulted
    /\ \A r \in Slots : ~SamePair(r, k[1], k[2])

\* lines 1623-1640: curtido = !!data, the read's error is not looked at
CurtidoPor(p, e, out) ==
    /\ e # <<>>
    /\ LET u == ToLowerCase(e)
       IN getResp' = [kind |-> "curtido-por", post_id |-> p, usuario_email |-> u,
                      status |-> 200, curtido |-> MaybeSingle(LikeRows(p, u), out),
                      n |-> Len(likeLog[<<p, u>>]),
                      clean |-> CleanLog(<<p, u>>) /\ out = "ok"]
    /\ UNCHANGED <<curtidas, likeReq, likeLog>>

InitLikes ==
    /\ curtidas = EmptyBag
    /\ likeReq = [r \in Slots |-> IdleLike]
    /\ likeLog = [k \in LikePairs |-> <<>>]
    /\ getResp = NoResp

NextLikes ==
    \/ \E p \in PostIds : CurtirReject(p) /\ UNCHANGED notLikeVars
    \/ \E r \in Slots, p \in PostIds, e \in UsuarioEmails :
          CurtirStart(r, p, e) /\ UNCHANGED notLikeVars
    \/ \E r \in Slots, out \in Outcomes : CurtirSelect(r, out) /\ UNCHANGED notLikeVars
    \/ \E r \in Slots, out \in Outcomes : CurtirDelete(r, out) /\ UNCHANGED notLikeVars
    \/ \E r \in Slots, out \in Outcomes : CurtirInsert(r, out) /\ UNCHANGED notLikeVars
    \/ \E p \in PostIds, e \in UsuarioEmails, out \in Outcomes :
          CurtidoPor(p, e, out) /\ UNCHANGED notLikeVars

-----------------------------------------------------------------------------
(* Claims about the like toggle *)

IsOdd(n) == n % 2 = 1

CleanEntry(x) == ~x.overlapped /\ ~x.faulted

PairIdle(k) == \A r \in Slots : ~SamePair(r, k[1], k[2])

\* C1: starting from a state with no like row for (post, user), after n
\* successive non-overlapping toggle calls by that user on that post, each
\* served by the store without error, a like row exists and the curtido-por
\* query answers curtido:true when n is odd, and no like row exists (and the
\* query answers curtido:false) when n is even.
InvLikeParity ==
    /\ \A k \in LikePairs : \A i \in 1..Len(likeLog[k]) :
          LET n == Len(likeLog[k]) - i + 1
          IN (/\ likeLog[k][i].before = 0
              /\ \A j \in i..Len(likeLog[k]) : CleanEntry(likeLog[k][j])
              /\ PairIdle(k))
             => /\ (LikeRows(k[1], k[2]) >= 1) = IsOdd(n)
                /\ (LikeRows(k[1], k[2]) = 0) = ~IsOdd(n)
                /\ MaybeSingle(LikeRows(k[1], k[2]), "ok") = IsOdd(n)
    /\ (getResp.kind = "curtido-por" /\ getResp.clean)
          => getResp.curtido = IsOdd(getResp.n)

WitLikeParity ==
    \E k \in LikePairs :
        /\ Len(likeLog[k]) = 3
        /\ CleanLog(k)
        /\ LikeRows(k[1], k[2]) = 1
        /\ getResp.kind = "curtido-por" /\ getResp.clean
        /\ getResp.n = 3 /\ getResp.curtido
        /\ getResp.post_id = k[1] /\ getResp.usuario_email = k[2]

WitToggleFromDuplicates ==
    \E k \in LikePairs : \E i \in 1..(Len(likeLog[k]) - 1) :
        /\ CleanEntry(likeLog[k][i]) /\ CleanEntry(likeLog[k][i + 1])
        /\ likeLog[k][i].before >= 2

\* the two toggles of a pair that had no like row, both served by the store
\* without a fault, and no other toggle of the pair started
TogglePairServed(k) ==
    /\ Len(likeLog[k]) = 2
    /\ \A r \in Slots : ~SamePair(r, k[1], k[2])
    /\ likeLog[k][1].before = 0
    /\ \A i \in {1, 2} : likeLog[k][i].status = 200 /\ ~likeLog[k][i].faulted

\* C22: the toggle reads and then writes.  Two toggles of one user on one
\* post, starting with no like row, either answer curtido:true then
\* curtido:false and leave no row, which is what every sequential order
\* gives, or overlap, both read no like, both insert and both answer
\* curtido:true, leaving two like rows.
InvToggleRace ==
    \A k \in LikePairs :
        TogglePairServed(k) =>
            LET a == likeLog[k][1]
                b == likeLog[k][2]
            IN /\ a.curtido
               /\ IF b.curtido
                  THEN /\ a.overlapped /\ b.overlapped
                       /\ b.before = 0
                       /\ LikeRows(k[1], k[2]) = 2
                  ELSE LikeRows(k[1], k[2]) = 0
               /\ ~a.overlapped => ~b.curtido

\* C22 case: both toggles read before either wrote, both inserted and both
\* answered curtido:true; two like rows remain where a sequential order
\* leaves none
WitToggleRace ==
    \E k \in LikePairs :
        /\ TogglePairServed(k)
        /\ likeLog[k][1].curtido /\ likeLog[k][2].curtido
        /\ likeLog[k][2].before = 0
        /\ LikeRows(k[1], k[2]) = 2
        /\ getResp.kind = "curtir" /\ getResp.curtido

-----------------------------------------------------------------------------
(* Contract settings: POST /contract-settings (native upsert, then the     *)
(* manual UPDATE-then-INSERT emulation)                                     *)

CsSlots == {1, 2}

\* professor_email and aluno_email as sent; <<>> is an absent or empty value
ProfessorEmails == {<<>>, <<"P">>, <<"p", " ">>}
AlunoEmails == {<<>>, <<" ", "A">>, <<"a">>, <<"b">>}

\* the optional fields as sent: professor_name ("" is empty), option1_value
\* (<<>> is absent or null, <<n>> is the number n)
CsFields == {[professor_name |-> "", option1_value |-> <<>>],
             [professor_name |-> "n", option1_value |-> <<0>>]}

\* the schema the operator may have installed: complete, without the unique
\* constraint on (professor_email, aluno_email), or without the table
CsSchemas == {"full", "noconstraint", "notable"}

CsKeys == {<<Trim(ToLowerCase(p)), Trim(ToLowerCase(a))>> :
              p \in ProfessorEmails \ {<<>>}, a \in AlunoEmails \ {<<>>}}

\* lines 456-469: the normalized record the handler sends to the store
UpsertPayload(p, a, f) ==
    [professor_email |-> ToLowerCase(Trim(p)),
     aluno_email |-> ToLowerCase(Trim(a)),
     professor_name |-> IF f.professor_name = "" THEN <<>> ELSE <<f.professor_name>>,
     option1_value |-> f.option1_value]

CsKeyOf(row) == <<row.professor_email, row.aluno_email>>

\* rows of the table with the composite key k, as a bag
CsRowsOf(table, k) == [x \in {y \in BagToSet(table) : CsKeyOf(y) = k} |-> table[x]]

CsCount(table, k) == BagCardinality(CsRowsOf(table, k))

CsWithout(table, k) == [x \in {y \in BagToSet(table) : CsKeyOf(y) # k} |-> table[x]]

\* n copies of one row
CsCopies(row, n) == IF n = 0 THEN EmptyBag ELSE [x \in {row} |-> n]

\* mutant: the upsert inserts without looking at the conflict target
UpsertAsInsert(table, row) == table (+) CsCopies(row, 1)

\* upsert(.., {onConflict: 'professor_email,aluno_email'}): with the unique
\* constraint the conflicting row is rewritten, else the row is inserted
NativeUpsert(table, row) == CsWithout(table, CsKeyOf(row)) (+) CsCopies(row, 1)

\* update(payload).eq('professor_email', ..).eq('aluno_email', ..): every
\* row of the key takes the payload's values
ManualUpdate(table, row) ==
    CsWithout(table, CsKeyOf(row)) (+) CsCopies(row, CsCount(table, CsKeyOf(row)))

\* mutant: the INSERT of the emulation adds no row
ManualInsertNothing(table, row) == table

\* insert([payload])
ManualInsert(table, row) == table (+) CsCopies(row, 1)

\* the answers the store can give to the native upsert under a schema
UpsertOutcomes(schema) ==
    {"err"} \cup (CASE schema = "full" -> {"ok"}
                    [] schema = "noconstraint" -> {"42P10"}
                    [] schema = "notable" -> {"PGRST205"})

CsNoResp == [status |-> 0, error |-> "", rows |-> EmptyBag, calls |-> <<>>,
             asked |-> <<>>]

\* a store call a request issued and what it returned
CsCall(op, out) == [op |-> op, out |-> out]

IdleCs == [pc |-> "idle", payload |-> UpsertPayload(<<>>, <<>>, [professor_name |-> "", option1_value |-> <<>>]),
           before |-> 0, overlapped |-> FALSE, calls |-> <<>>]

CsBusy(r, k) == csReq[r].pc # "idle" /\ CsKeyOf(csReq[r].payload) = k

CsStarted ==
    LET RECURSIVE Tot(_)
        Tot(S) == IF S = {} THEN 0
                  ELSE LET k == CHOOSE x \in S : TRUE
                       IN Len(csLog[k]) + Tot(S \ {k})
    IN Tot(CsKeys) + Cardinality({r \in CsSlots : csReq[r].pc # "idle"})

\* mutant: the fields are looked at in the order aluno_email, professor_email
CsRejectAlunoFirst(p, a) ==
    /\ p = <<>> \/ a = <<>>
    /\ csResp' = [CsNoResp EXCEPT !.status = 400, !.asked = <<p, a>>,
                     !.error = IF a = <<>> THEN "aluno_email é obrigatório"
                               ELSE "professor_email é obrigatório"]
    /\ UNCHANGED <<contract_settings, csSchema, csReq, csLog>>

\* lines 452-454: the first missing required field is named, nothing is
\* read; the two fields as sent are kept with the answer
CsReject(p, a) ==
    /\ p = <<>> \/ a = <<>>
    /\ csResp' = [CsNoResp EXCEPT !.status = 400, !.asked = <<p, a>>,
                     !.error = IF p = <<>> THEN "professor_email é obrigatório"
                               ELSE "aluno_email é obrigatório"]
    /\ UNCHANGED <<contract_settings, csSchema, csReq, csLog>>

\* lines 450-471: validate, normalize, build the payload
CsStart(r, p, a, f) ==
    /\ csReq[r].pc = "idle"
    /\ p # <<>> /\ a # <<>>
    /\ CsStarted < MaxCsCalls
    /\ LET row == UpsertPayload(p, a, f)
           k == CsKeyOf(row)
           busy == \E o \in CsSlots \ {r} : CsBusy(o, k)
       IN csReq' = [o \in CsSlots |->
                      IF o = r
                      THEN [pc |-> "upsert", payload |-> row,
                            before |-> CsCount(contract_settings, k),
                            overlapped |-> busy, calls |-> <<>>]
                      ELSE IF CsBusy(o, k)
                           THEN [csReq[o] EXCEPT !.overlapped = TRUE]
                           ELSE csReq[o]]
    /\ csResp' = CsNoResp
    /\ UNCHANGED <<contract_settings, csSchema, csLog>>

CsEntry(q, path, status, table) ==
    [path |-> path, status |-> status, payload |-> q.payload,
     before |-> q.before, overlapped |-> q.overlapped,
     rowsAfter |-> CsRowsOf(table, CsKeyOf(q.payload))]

CsFinish(r, path, status, error, rows, table, call) ==
    LET q == csReq[r]
    IN /\ contract_settings' = table
       /\ csLog' = [csLog EXCEPT ![CsKeyOf(q.payload)] =
                                    Append(@, CsEntry(q, path, status, table))]
       /\ csReq' = [csReq EXCEPT ![r] = IdleCs]
       /\ csResp' = [status |-> status, error |-> error, rows |-> rows,
                     calls |-> Append(q.calls, call), asked |-> <<>>]
       /\ UNCHANGED csSchema

MigrationHint == "Tabela contract_settings não encontrada no banco. Execute create_contract_settings_table.sql no Supabase SQL Editor."

\* mutant: every error of the native upsert but the missing table starts the
\* emulation
CsUpsertAnyError(r, out) ==
    /\ csReq[r].pc = "upsert"
    /\ out \in UpsertOutcomes(csSchema)
    /\ LET q == csReq[r]
       IN CASE out = "ok" ->
                 CsFinish(r, "native", 200, "", CsCopies(q.payload, 1),
                          NativeUpsert(contract_settings, q.payload),
                          CsCall("upsert", out))
            [] out = "PGRST205" ->
                 CsFinish(r, "notable", 500, MigrationHint, EmptyBag, contract_settings,
                          CsCall("upsert", out))
            [] out \in {"42P10", "err"} ->
                 /\ csReq' = [csReq EXCEPT ![r].pc = "update",
                                           ![r].calls = <<CsCall("upsert", out)>>]
                 /\ csResp' = CsNoResp
                 /\ UNCHANGED <<contract_settings, csSchema, csLog>>

\* lines 472-482 and 510-516: the native upsert and its error branches
CsUpsert(r, out) ==
    /\ csReq[r].pc = "upsert"
    /\ out \in UpsertOutcomes(csSchema)
    /\ LET q == csReq[r]
       IN CASE out = "ok" ->
                 CsFinish(r, "native", 200, "", CsCopies(q.payload, 1),
                          NativeUpsert(contract_settings, q.payload),
                          CsCall("upsert", out))
            [] out = "PGRST205" ->
                 CsFinish(r, "notable", 500, MigrationHint, EmptyBag, contract_settings,
                          CsCall("upsert", out))
            [] out = "42P10" ->
                 /\ csReq' = [csReq EXCEPT ![r].pc = "update",
                                           ![r].calls = <<CsCall("upsert", out)>>]
                 /\ csResp' = CsNoResp
                 /\ UNCHANGED <<contract_settings, csSchema, csLog>>
            [] out = "err" ->
                 CsFinish(r, "error", 500, "Erro ao salvar configurações de contrato",
                          EmptyBag, contract_settings, CsCall("upsert", out))

ManualFailed == "Erro ao salvar configurações de contrato (upsert manual falhou)"

\* mutant: the INSERT follows every UPDATE the store served
CsUpdateThenInsert(r, out) ==
    /\ csReq[r].pc = "update"
    /\ LET q == csReq[r]
           table == ManualUpdate(contract_settings, q.payload)
           updated == CsRowsOf(table, CsKeyOf(q.payload))
       IN IF out = "err"
          THEN CsFinish(r, "manual-error", 500, ManualFailed, EmptyBag, contract_settings,
                        CsCall("update", "err"))
          ELSE /\ csReq' = [csReq EXCEPT
                              ![r].pc = "insert",
                              ![r].calls = Append(@, CsCall("update",
                                  IF BagCardinality(updated) > 0 THEN "rows" ELSE "none"))]
               /\ csResp' = CsNoResp
               /\ contract_settings' = table
               /\ UNCHANGED <<csSchema, csLog>>

\* lines 487-498 and 504-507: UPDATE filtered by the composite key
CsUpdate(r, out) ==
    /\ csReq[r].pc = "update"
    /\ LET q == csReq[r]
           table == ManualUpdate(contract_settings, q.payload)
           updated == CsRowsOf(table, CsKeyOf(q.payload))
       IN IF out = "err"
          THEN CsFinish(r, "manual-error", 500, ManualFailed, EmptyBag, contract_settings,
                        CsCall("update", "err"))
          ELSE IF BagCardinality(updated) > 0
               THEN CsFinish(r, "manual-update", 200, "", updated, table,
                             CsCall("update", "rows"))
               ELSE /\ csReq' = [csReq EXCEPT
                                   ![r].pc = "insert",
                                   ![r].calls = Append(@, CsCall("update", "none"))]
                    /\ csResp' = CsNoResp
                    /\ UNCHANGED <<contract_settings, csSchema, csLog>>

\* lines 500-507: INSERT when the UPDATE matched no row
CsInsert(r, out) ==
    /\ csReq[r].pc = "insert"
    /\ LET q == csReq[r]
       IN IF out = "err"
          THEN CsFinish(r, "manual-error", 500, ManualFailed, EmptyBag, contract_settings,
                        CsCall("insert", "err"))
          ELSE CsFinish(r, "manual-insert", 200, "", CsCopies(q.payload, 1),
                        ManualInsert(contract_settings, q.payload),
                        CsCall("insert", "ok"))

InitSettings ==
    /\ contract_settings = EmptyBag
    /\ csSchema \in CsSchemas
    /\ csReq = [r \in CsSlots |-> IdleCs]
    /\ csLog = [k \in CsKeys |-> <<>>]
    /\ csResp = CsNoResp

NextSettings ==
    \/ \E p \in ProfessorEmails, a \in AlunoEmails :
          CsReject(p, a) /\ UNCHANGED notCsVars
    \/ \E r \in CsSlots, p \in ProfessorEmails, a \in AlunoEmails, f \in CsFields :
          CsStart(r, p, a, f) /\ UNCHANGED notCsVars
    \/ \E r \in CsSlots, out \in {"ok", "err", "42P10", "PGRST205"} :
          CsUpsert(r, out) /\ UNCHANGED notCsVars
    \/ \E r \in CsSlots, out \in Outcomes : CsUpdate(r, out) /\ UNCHANGED notCsVars
    \/ \E r \in CsSlots, out \in Outcomes : CsInsert(r, out) /\ UNCHANGED notCsVars

\* the contract-settings tables as first created, for the other specifications
PinSettings ==
    /\ contract_settings = EmptyBag
    /\ csSchema = "full"
    /\ csReq = [r \in CsSlots |-> IdleCs]
    /\ csLog = [k \in CsKeys |-> <<>>]
    /\ csResp = CsNoResp

-----------------------------------------------------------------------------
(* Claims about the contract-settings upsert *)

CsClean(x) == ~x.overlapped /\ x.status = 200

\* C3: two successive POST /contract-settings calls with the same
\* (professor_email, aluno_email), each answered with success and overlapping
\* no other call for that key, starting from at most one row for the key,
\* leave exactly one row for the key, holding the second call's values; on
\* the native upsert path and on the manual UPDATE-then-INSERT path alike.
InvUpsertIdempotent ==
    \A k \in CsKeys : \A i \in 1..(Len(csLog[k]) - 1) :
        LET a == csLog[k][i]
            b == csLog[k][i + 1]
        IN (CsClean(a) /\ CsClean(b) /\ a.before <= 1)
           => /\ a.rowsAfter = CsCopies(a.payload, 1)
              /\ b.rowsAfter = CsCopies(b.payload, 1)
              /\ b.path \in {"native", "manual-update"}
              /\ (a.path = "native") = (b.path = "native")

WitUpsertIdempotentNative ==
    \E k \in CsKeys :
        /\ Len(csLog[k]) >= 2
        /\ CsClean(csLog[k][1]) /\ CsClean(csLog[k][2])
        /\ csLog[k][1].path = "native" /\ csLog[k][2].path = "native"
        /\ csLog[k][1].payload # csLog[k][2].payload
        /\ CsRowsOf(contract_settings, k) = CsCopies(csLog[k][2].payload, 1)

WitUpsertIdempotent ==
    \E k \in CsKeys :
        /\ Len(csLog[k]) >= 2
        /\ CsClean(csLog[k][1]) /\ CsClean(csLog[k][2])
        /\ csLog[k][1].path = "manual-insert" /\ csLog[k][2].path = "manual-update"
        /\ csLog[k][1].payload # csLog[k][2].payload
        /\ CsRowsOf(contract_settings, k) = CsCopies(csLog[k][2].payload, 1)

\* C19: after a native upsert that failed with 42P10 the handler issues an
\* UPDATE filtered by the composite key.  If the UPDATE returns at least one
\* row, the answer is those rows and no INSERT is issued; only if it returns
\* no row is one INSERT issued and the inserted row answered; an error of
\* the UPDATE or of the INSERT is answered 500 '... (upsert manual falhou)',
\* and no store call follows it.
InvManualOrdering ==
    [][\A r \in CsSlots :
          LET q == csReq[r]
              k == CsKeyOf(q.payload)
              n == CsCount(contract_settings, k)
              failed == /\ csResp'.status = 500
                        /\ csResp'.error = ManualFailed
                        /\ contract_settings' = contract_settings
                        /\ csReq'[r].pc = "idle"
          IN /\ q.pc = "update" /\ csReq'[r].pc # "update" =>
                   /\ q.calls = <<CsCall("upsert", "42P10")>>
                   /\ IF csReq'[r].pc = "insert"
                      THEN /\ n = 0
                           /\ contract_settings' = contract_settings
                           /\ csReq'[r].calls = Append(q.calls, CsCall("update", "none"))
                      ELSE /\ Len(csResp'.calls) = 2
                           /\ csResp'.calls[2].op = "update"
                           /\ IF csResp'.calls[2].out = "err" THEN failed
                              ELSE /\ n >= 1
                                   /\ csResp'.status = 200
                                   /\ csResp'.rows = CsCopies(q.payload, n)
                                   /\ CsRowsOf(contract_settings', k) = csResp'.rows
                                   /\ CsWithout(contract_settings', k)
                                         = CsWithout(contract_settings, k)
             /\ q.pc = "insert" /\ csReq'[r].pc # "insert" =>
                   /\ q.calls = <<CsCall("upsert", "42P10"), CsCall("update", "none")>>
                   /\ Len(csResp'.calls) = 3
                   /\ csResp'.calls[3].op = "insert"
                   /\ IF csResp'.calls[3].out = "err" THEN failed
                      ELSE /\ csResp'.status = 200
                           /\ csResp'.rows = CsCopies(q.payload, 1)
                           /\ contract_settings'
                                 = contract_settings (+) CsCopies(q.payload, 1)
                           /\ csReq'[r].pc = "idle"]_vars

\* C19 case: the key had a row, the native upsert failed with 42P10, and
\* the UPDATE answered the request with the rewritten row
WitManualOrdering ==
    /\ csResp.calls = <<CsCall("upsert", "42P10"), CsCall("update", "rows")>>
    /\ csResp.status = 200
    /\ csResp.rows # EmptyBag
    /\ \E k \in CsKeys : CsRowsOf(contract_settings, k) = csResp.rows

\* C20: the UPDATE/INSERT emulation starts only when the native upsert
\* failed with 42P10.  When it failed with PGRST205 the answer is the 500
\* that names the create_contract_settings_table.sql migration, for any
\* other error it is the generic 500 'Erro ao salvar configurações de
\* contrato', and in both cases no UPDATE and no INSERT follows.
InvManualGating ==
    [][\A r \in CsSlots :
          csReq[r].pc = "upsert" /\ csReq'[r].pc # "upsert" =>
             LET done == csReq'[r].pc = "idle"
                 calls == IF done THEN csResp'.calls ELSE csReq'[r].calls
                 out == calls[1].out
                 terminal == /\ done
                             /\ csResp'.status = 500
                             /\ csResp'.rows = EmptyBag
                             /\ contract_settings' = contract_settings
             IN /\ calls = <<CsCall("upsert", out)>>
                /\ (csReq'[r].pc \in {"update", "insert"}) = (out = "42P10")
                /\ out = "PGRST205" => terminal /\ csResp'.error = MigrationHint
                /\ out \notin {"ok", "42P10", "PGRST205"} =>
                      /\ terminal
                      /\ csResp'.error = "Erro ao salvar configurações de contrato"]_vars

\* C20 case: the store has no contract_settings table and the request was
\* answered with the migration to run, after the upsert alone
WitManualGating ==
    /\ csResp.calls = <<CsCall("upsert", "PGRST205")>>
    /\ csResp.status = 500
    /\ csResp.error = MigrationHint
    /\ contract_settings = EmptyBag

\* the two requests of a key that had no row: both are answered with
\* success, the store has no uniqueness constraint, and no other request for
\* the key was started
CsPairServed(k) ==
    /\ csSchema = "noconstraint"
    /\ Len(csLog[k]) = 2
    /\ \A r \in CsSlots : ~CsBusy(r, k)
    /\ csLog[k][1].before = 0
    /\ csLog[k][1].status = 200 /\ csLog[k][2].status = 200

\* C21: without the uniqueness constraint and with no row for a composite
\* key, two POST /contract-settings requests for that key leave one or two
\* rows for the key, whatever their interleaving: never none, never more
\* than two.  Two rows are left when both UPDATEs found no row and both
\* requests inserted.
InvManualRaceBounded ==
    \A k \in CsKeys :
        CsPairServed(k) =>
            /\ CsCount(contract_settings, k) \in {1, 2}
            /\ CsCount(contract_settings, k) = 2 =>
                  /\ csLog[k][1].path = "manual-insert"
                  /\ csLog[k][2].path = "manual-insert"
                  /\ csLog[k][1].overlapped /\ csLog[k][2].overlapped
                  /\ csLog[k][2].before = 0

\* C21 case: both requests started before either inserted, both UPDATEs
\* returned no row, both inserted, and the key has two rows
WitManualRace ==
    \E k \in CsKeys :
        /\ CsPairServed(k)
        /\ csLog[k][1].path = "manual-insert" /\ csLog[k][2].path = "manual-insert"
        /\ csLog[k][2].before = 0
        /\ CsCount(contract_settings, k) = 2

-----------------------------------------------------------------------------
(* Users: POST /alunos, GET /alunos/:id, PATCH /alunos/:id/contract,       *)
(* DELETE /alunos/:id                                                       *)

\* a value that may be null: <<>> is null or absent, <<v>> is the value v
Null == <<>>

\* the instants of the clock, which are also the instants a date can name
Times == 1..MaxNow

\* contract_end as sent: absent, a date-only string or an ISO string naming
\* an instant, or a string that is no date
DateInputs == {Null} \cup {<<[fmt |-> "date", t |-> n]>> : n \in Times}
                     \cup {<<[fmt |-> "iso", t |-> 1]>>, <<[fmt |-> "bad", t |-> 0]>>}

\* new Date(x).getTime(): the instant, <<>> for an invalid date
DateTime(x) == IF x.fmt = "bad" THEN <<>> ELSE <<x.t>>

\* lines 1121-1122: new Date(contract_end).toISOString(), the raw value
\* kept when the date is invalid (toISOString throws)
ToISO(x) == IF DateTime(x) = <<>> THEN x ELSE [fmt |-> "iso", t |-> x.t]

BlockedStrictlyBefore(iso, clock) == DateTime(iso) # <<>> /\ DateTime(iso)[1] < clock

\* lines 1125-1129: blocked when the date is valid and not after the clock
BlockedAt(iso, clock) == DateTime(iso) # <<>> /\ DateTime(iso)[1] <= clock

\* fields of a create request; <<>> (for tipo, "") is an absent or empty string
NomeInputs == {<<>>, <<" ", "n">>}
EmailInputs == {<<>>, <<"A", "@", "X">>, <<" ", "a", "@", "x", " ">>}
SenhaInputs == {<<>>, <<"p", "1">>}
TipoInputs == {"", "professor"}
CriadoPorInputs == {<<>>, <<"P", "@", "X", " ">>}

NoUser == [id |-> 0, nome |-> <<>>, email |-> <<>>, senha |-> <<>>, tipo |-> "",
           criado_por |-> Null, contract_end |-> Null, blocked |-> Null]

NoUserResp == [route |-> "", status |-> 0, error |-> "", data |-> NoUser,
               id |-> <<>>, contract_end |-> Null, blocked |-> Null,
               sent |-> <<>>, swallowed |-> FALSE, fresh |-> FALSE,
               rows |-> <<>>, attempts |-> 0, code |-> ""]

AlunoPayloadAsSent(nome, email, senha, tipo, criado_por, contract_end) ==
    [nome |-> nome, email |-> email, senha |-> senha,
     tipo |-> IF tipo = "" THEN "aluno" ELSE tipo,
     criado_por |-> IF criado_por = <<>> THEN Null ELSE <<criado_por>>,
     contract_end |-> contract_end]

\* lines 982-989: the normalized row sent to the store
AlunoPayload(nome, email, senha, tipo, criado_por, contract_end) ==
    [nome |-> Trim(nome),
     email |-> ToLowerCase(Trim(email)),
     senha |-> senha,
     tipo |-> IF tipo = "" THEN "aluno" ELSE tipo,
     criado_por |-> IF criado_por = <<>> THEN Null
                    ELSE IF ToLowerCase(Trim(criado_por)) = <<>> THEN Null
                    ELSE <<ToLowerCase(Trim(criado_por))>>,
     contract_end |-> contract_end]

\* the users row the store makes of an inserted payload
UserRow(id, p) ==
    [id |-> id, nome |-> p.nome, email |-> p.email, senha |-> p.senha, tipo |-> p.tipo,
     criado_por |-> p.criado_por, contract_end |-> p.contract_end, blocked |-> Null]

\* the answers the store can give to the users insert and to the alunos
\* insert that follows it: a uniqueness violation only when the email is
\* already there
InsertUserOutcomes(email) ==
    {<<"ok", "ok">>, <<"ok", "err">>, <<"err", "ok">>}
        \cup (IF \E u \in users : u.email = email THEN {<<"23505", "ok">>} ELSE {})

\* the create requests: complete ones, and one with each required field missing
CreateInputs ==
    ({<<" ", "n">>} \X (EmailInputs \ {<<>>}) \X {<<"p", "1">>} \X TipoInputs
        \X CriadoPorInputs \X {Null})
    \cup {<<n, e, p, "", <<>>, Null>> :
            n \in NomeInputs, e \in {<<>>, <<"A", "@", "X">>}, p \in SenhaInputs}

InsertFailedGeneric(out) ==
    [NoUserResp EXCEPT !.route = "POST /alunos", !.code = out, !.status = 500,
                       !.error = "Erro ao inserir usuário"]

\* lines 996-1003: the answer to a users insert the store rejected with the
\* error code out
InsertFailed(out) ==
    [NoUserResp EXCEPT !.route = "POST /alunos", !.code = out,
                       !.status = IF out = "23505" THEN 409 ELSE 500,
                       !.error = IF out = "23505" THEN "Email já cadastrado"
                                 ELSE "Erro ao inserir usuário"]

\* lines 969-1038: handleCreateAluno (POST /alunos, /api/professor/create-student)
CreateAluno(nome, email, senha, tipo, criado_por, contract_end, outs) ==
    IF nome = <<>> \/ email = <<>> \/ senha = <<>>
    THEN /\ userResp' = [NoUserResp EXCEPT !.route = "POST /alunos", !.status = 400,
                            !.error = "nome, email e senha são obrigatórios"]
         /\ UNCHANGED <<users, alunos, mensagens, userNextId, now, patches, progresso>>
    ELSE LET p == AlunoPayload(nome, email, senha, tipo, criado_por, contract_end)
             row == UserRow(userNextId, p)
             out == outs[1]
             outAluno == outs[2]
         IN /\ outs \in InsertUserOutcomes(p.email)
            /\ userNextId <= MaxUsers
            /\ IF out = "ok"
               THEN /\ users' = users \cup {row}
                    /\ userNextId' = userNextId + 1
                    /\ alunos' = IF p.tipo = "aluno" /\ outAluno = "ok"
                                 THEN alunos (+) SetToBag({[email |-> p.email, nome |-> p.nome,
                                                            professor_email |-> p.criado_por]})
                                 ELSE alunos
                    /\ userResp' = [NoUserResp EXCEPT !.route = "POST /alunos",
                                       !.status = 200, !.data = row, !.id = ToDecimal(row.id)]
               ELSE /\ userResp' = InsertFailed(out)
                    /\ UNCHANGED <<users, alunos, userNextId>>
            /\ UNCHANGED <<mensagens, now, patches, progresso>>

\* path parameters naming a user
IdParams == {ToDecimal(i) : i \in 0..MaxUsers} \cup {<<"1", ":", "x">>, <<" ", "1">>, <<"x">>}

UsersWithId(n) == {u \in users : u.id = n}

\* lines 1079-1100: GET /alunos/:id; fresh marks a read that directly
\* follows the create that returned this id
GetAluno(param, out) ==
    LET id == ParseInt(Trim(BeforeColon(param)))
    IN /\ userResp' =
            IF id = <<>> \/ id = <<0>>
            THEN [NoUserResp EXCEPT !.route = "GET /alunos/:id", !.status = 400,
                                    !.error = "id inválido", !.id = param]
            ELSE IF out = "err"
            THEN [NoUserResp EXCEPT !.route = "GET /alunos/:id", !.status = 500,
                                    !.error = "Erro ao buscar aluno", !.id = param]
            ELSE IF UsersWithId(id[1]) = {}
            THEN [NoUserResp EXCEPT !.route = "GET /alunos/:id", !.status = 404,
                                    !.error = "Aluno não encontrado", !.id = param]
            ELSE [NoUserResp EXCEPT !.route = "GET /alunos/:id", !.status = 200,
                                    !.data = CHOOSE u \in UsersWithId(id[1]) : TRUE,
                                    !.id = param,
                                    !.fresh = /\ userResp.route = "POST /alunos"
                                              /\ userResp.status = 200
                                              /\ userResp.id = param]
       /\ UNCHANGED <<users, alunos, mensagens, userNextId, now, patches, progresso>>

ExpiredNotice == "Seu contrato expirou. Por favor, contate seu administrador para renovar."
UpdatedNotice == "Seu contrato foi atualizado até ${iso}. Acesse sua conta para mais detalhes."
ProfExpiredNotice == "O contrato do aluno ${user.email} expirou. Por favor, verifique e tome as providências necessárias."
ProfRenewedNotice == "O contrato do aluno ${user.email} foi renovado até ${iso}."

\* a mensagens row; the text is kept as its template
Mensagem(para, texto) == [de |-> <<"sistema">>, para |-> para, mensagem |-> texto]

UserNoticeAlwaysUpdated(user, blocked, iso) ==
    IF user.email = <<>> THEN <<>> ELSE <<Mensagem(user.email, UpdatedNotice)>>

\* lines 1136-1147: the notice for the updated user
UserNotice(user, blocked, iso) ==
    IF user.email = <<>> THEN <<>>
    ELSE IF blocked THEN <<Mensagem(user.email, ExpiredNotice)>>
    ELSE <<Mensagem(user.email, UpdatedNotice)>>

\* lines 1154-1163: who is told as the professor
ProfessorEmailOf(user, bodyProfessor) ==
    IF user # NoUser /\ user.tipo = "professor" THEN user.email
    ELSE IF bodyProfessor # <<>> THEN bodyProfessor
    ELSE IF user # NoUser /\ user.criado_por # Null THEN user.criado_por[1]
    ELSE <<>>

\* mutant: the professor's notice is written whenever a recipient is known
ProfessorNoticeAlways(user, bodyProfessor, blocked, iso) ==
    LET professorEmail == ProfessorEmailOf(user, bodyProfessor)
    IN IF professorEmail # <<>> /\ user # NoUser
       THEN <<Mensagem(professorEmail,
                       IF blocked THEN ProfExpiredNotice ELSE ProfRenewedNotice)>>
       ELSE <<>>

\* lines 1165-1171: the notice for the professor, skipped when the professor
\* is the updated user
ProfessorNotice(user, bodyProfessor, blocked, iso) ==
    LET professorEmail == ProfessorEmailOf(user, bodyProfessor)
    IN IF professorEmail # <<>> /\ user # NoUser /\ professorEmail # user.email
       THEN <<Mensagem(professorEmail,
                       IF blocked THEN ProfExpiredNotice ELSE ProfRenewedNotice)>>
       ELSE <<>>

\* insert([row]) of each notice in turn
RECURSIVE InsertMensagens(_, _)
InsertMensagens(table, q) ==
    IF q = <<>> THEN table ELSE InsertMensagens(table (+) SetToBag({Head(q)}), Tail(q))

\* update({contract_end, blocked}).eq('id', id)
UpdateContract(id, iso, blocked) ==
    {IF u.id = id THEN [u EXCEPT !.contract_end = <<iso>>,
                                 !.blocked = <<IF blocked THEN 1 ELSE 0>>]
     ELSE u : u \in users}

\* the answers of the four store calls of the handler (users update, users
\* select, user notice insert, professor notice insert): at most one fails
PatchOutcomes ==
    {<<"ok", "ok", "ok", "ok">>, <<"err", "ok", "ok", "ok">>, <<"ok", "err", "ok", "ok">>,
     <<"ok", "ok", "err", "ok">>, <<"ok", "ok", "ok", "err">>,
     <<"ok", "ok", "throw", "ok">>, <<"ok", "ok", "ok", "throw">>}

PatchAnswerSurfaced(id, iso, blocked, user, sent, swallowed, attempts) ==
    IF swallowed
    THEN [NoUserResp EXCEPT !.route = "PATCH /alunos/:id/contract", !.status = 500,
                            !.error = "Erro ao atualizar contrato",
                            !.swallowed = TRUE, !.attempts = attempts, !.sent = sent]
    ELSE [NoUserResp EXCEPT !.route = "PATCH /alunos/:id/contract",
                            !.status = 200, !.id = ToDecimal(id), !.data = user,
                            !.contract_end = <<iso>>,
                            !.blocked = <<IF blocked THEN 1 ELSE 0>>,
                            !.sent = sent, !.attempts = attempts]

\* line 1181: res.json({ id, contract_end: iso, blocked }); what was sent,
\* whether a notice insert failed and how many were issued are kept with it
PatchAnswer(id, iso, blocked, user, sent, swallowed, attempts) ==
    [NoUserResp EXCEPT !.route = "PATCH /alunos/:id/contract",
                       !.status = 200, !.id = ToDecimal(id), !.data = user,
                       !.contract_end = <<iso>>,
                       !.blocked = <<IF blocked THEN 1 ELSE 0>>,
                       !.sent = sent, !.swallowed = swallowed, !.attempts = attempts]

\* lines 1114-1186: PATCH /alunos/:id/contract
PatchContract(id, contract_end, bodyProfessor, outs) ==
    IF contract_end = Null
    THEN /\ userResp' = [NoUserResp EXCEPT !.route = "PATCH /alunos/:id/contract",
                            !.status = 400, !.error = "contract_end é obrigatório"]
         /\ UNCHANGED <<users, alunos, mensagens, userNextId, now, patches, progresso>>
    ELSE LET outUpdate == outs[1]
             outSelect == outs[2]
             outUser == outs[3]
             outProf == outs[4]
             iso == ToISO(contract_end[1])
             blocked == BlockedAt(iso, now)
             table == UpdateContract(id, iso, blocked)
             found == {u \in table : u.id = id}
             user == IF found = {} THEN NoUser ELSE CHOOSE u \in found : TRUE
             toUser == IF outUser = "ok" THEN UserNotice(user, blocked, iso) ELSE <<>>
             toProf == IF outProf = "ok"
                       THEN ProfessorNotice(user, bodyProfessor, blocked, iso) ELSE <<>>
             failed == [NoUserResp EXCEPT !.route = "PATCH /alunos/:id/contract",
                           !.status = 500, !.error = "Erro ao atualizar contrato"]
         IN /\ patches < MaxPatch
            /\ patches' = patches + 1
            /\ IF outUpdate = "err"
               THEN /\ userResp' = failed
                    /\ UNCHANGED <<users, mensagens>>
               ELSE IF outSelect = "err"
               THEN /\ users' = table
                    /\ userResp' = failed
                    /\ UNCHANGED mensagens
               ELSE /\ users' = table
                    /\ mensagens' = InsertMensagens(mensagens, toUser \o toProf)
                    /\ userResp' = PatchAnswer(id, iso, blocked, user, toUser \o toProf,
                                                \/ outUser # "ok"
                                                      /\ UserNotice(user, blocked, iso) # <<>>
                                                \/ outProf # "ok"
                                                      /\ ProfessorNotice(user, bodyProfessor,
                                                                         blocked, iso) # <<>>,
                                                Len(UserNotice(user, blocked, iso))
                                                  + Len(ProfessorNotice(user, bodyProfessor,
                                                                        blocked, iso)))
            /\ UNCHANGED <<alunos, userNextId, now, progresso>>

\* lines 1189-1199: DELETE /alunos/:id
DeleteAluno(id, out) ==
    /\ users' = IF out = "ok" THEN {u \in users : u.id # id} ELSE users
    /\ userResp' = [NoUserResp EXCEPT !.route = "DELETE /alunos/:id",
                       !.status = IF out = "ok" THEN 200 ELSE 500]
    /\ UNCHANGED <<alunos, mensagens, userNextId, now, patches, progresso>>

ConcluidoNotice == "O aluno ${alunoEmail} concluiu um treino (id ${treinoId}) com ${peso_corporal} kg e progresso ${percent}."

\* aluno_email of a completion request: absent, the student a@x enrolled by
\* p@x, the professor's own email, an email no user has
ConcluirEmails == {<<>>, <<" ", "A", "@", "X">>, <<"p", "@", "x">>, <<"b">>}

\* the answers of the progresso insert, the users lookup and the mensagens
\* insert: at most one of them fails
ConcluirOutcomes ==
    {<<"ok", "ok", "ok">>, <<"err", "ok", "ok">>, <<"PGRST205", "ok", "ok">>,
     <<"ok", "err", "ok">>, <<"ok", "ok", "err">>, <<"ok", "ok", "throw">>}

\* lines 131-178: POST /treinos/:id/concluir
ConcluirTreino(treinoId, aluno_email, outs) ==
    IF aluno_email = <<>>
    THEN /\ userResp' = [NoUserResp EXCEPT !.route = "POST /treinos/:id/concluir",
                            !.status = 400, !.error = "aluno_email é obrigatório no body"]
         /\ UNCHANGED <<users, alunos, mensagens, userNextId, now, patches, progresso>>
    ELSE LET alunoEmail == ToLowerCase(Trim(aluno_email))
             row == [aluno_email |-> alunoEmail, treino_id |-> treinoId]
             found == {u \in users : u.email = alunoEmail}
             alunoUser == IF MaybeSingle(Cardinality(found), outs[2])
                          THEN CHOOSE u \in found : TRUE ELSE NoUser
             notice == IF alunoUser # NoUser /\ alunoUser.criado_por # Null
                       THEN <<[de |-> alunoEmail, para |-> alunoUser.criado_por[1],
                               mensagem |-> ConcluidoNotice]>>
                       ELSE <<>>
             sent == IF outs[3] = "ok" THEN notice ELSE <<>>
         IN /\ patches < MaxPatch
            /\ patches' = patches + 1
            /\ IF outs[1] = "ok"
               THEN /\ progresso' = progresso (+) SetToBag({row})
                    /\ mensagens' = InsertMensagens(mensagens, sent)
                    /\ userResp' = [NoUserResp EXCEPT
                                       !.route = "POST /treinos/:id/concluir",
                                       !.status = 200, !.rows = <<row>>, !.sent = sent,
                                       !.swallowed = notice # <<>> /\ outs[3] # "ok",
                                       !.attempts = Len(notice)]
               ELSE /\ userResp' = [NoUserResp EXCEPT
                                       !.route = "POST /treinos/:id/concluir",
                                       !.status = 500,
                                       !.error = IF outs[1] = "PGRST205"
                                                 THEN "Tabela 'progresso' não encontrada. Execute backend/create_progresso_table.sql no Supabase SQL Editor."
                                                 ELSE "Erro ao marcar treino como concluído"]
                    /\ UNCHANGED <<progresso, mensagens>>
            /\ UNCHANGED <<users, alunos, userNextId, now>>

\* time passes between requests
Tick ==
    /\ now < MaxNow
    /\ now' = now + 1
    /\ UNCHANGED <<users, alunos, mensagens, userNextId, patches, progresso, userResp>>

InitUsers ==
    /\ users = {}
    /\ alunos = EmptyBag
    /\ mensagens = EmptyBag
    /\ userNextId = 1
    /\ now = 1
    /\ patches = 0
    /\ progresso = EmptyBag
    /\ userResp = NoUserResp

\* users tables POST /alunos leaves behind: a student a@x enrolled by the
\* professor p@x, alone or with that professor's own row
SeedUsers ==
    LET aluno == UserRow(1, AlunoPayload(<<"n">>, <<"A", "@", "X">>, <<"p", "1">>, "",
                                         <<"P", "@", "X", " ">>, Null))
        prof == UserRow(2, AlunoPayload(<<"n">>, <<"P", "@", "X">>, <<"p", "1">>,
                                        "professor", <<>>, Null))
    IN {{aluno}, {aluno, prof}}

\* the store when contracts start to be renewed
InitContract ==
    /\ users \in SeedUsers
    /\ alunos = EmptyBag
    /\ mensagens = EmptyBag
    /\ userNextId = MaxUsers + 1
    /\ now = 1
    /\ patches = 0
    /\ progresso = EmptyBag
    /\ userResp = NoUserResp

\* ids a path can name; an id names no user before its row is created
UserIds == 1..MaxUsers

NextAlunos ==
    \/ \E f \in CreateInputs : \E outs \in InsertUserOutcomes(ToLowerCase(Trim(f[2]))) :
          CreateAluno(f[1], f[2], f[3], f[4], f[5], f[6], outs) /\ UNCHANGED notUserVars
    \/ \E param \in IdParams, out \in Outcomes :
          GetAluno(param, out) /\ UNCHANGED notUserVars
    \/ \E id \in UserIds, out \in Outcomes : DeleteAluno(id, out) /\ UNCHANGED notUserVars

\* ids the contract requests name: the seeded rows, the second of which may
\* be absent
SeedIds == {1, 2}

NextContract ==
    \/ \E id \in SeedIds, contract_end \in DateInputs,
          bodyProfessor \in {<<>>, <<"P", "@", "X">>}, outs \in PatchOutcomes :
          PatchContract(id, contract_end, bodyProfessor, outs) /\ UNCHANGED notUserVars
    \/ Tick /\ UNCHANGED notUserVars

\* the two routes that write a notice after their primary write
\* professor_email of the body: absent, the professor as typed, the updated
\* student's own email
BodyProfessors == {<<>>, <<"P", "@", "X">>, <<"a", "@", "x">>}

NextNotify ==
    \/ \E id \in SeedIds, contract_end \in DateInputs,
          bodyProfessor \in BodyProfessors, outs \in PatchOutcomes :
          PatchContract(id, contract_end, bodyProfessor, outs) /\ UNCHANGED notUserVars
    \/ \E aluno_email \in ConcluirEmails, outs \in ConcluirOutcomes :
          ConcluirTreino(<<"7">>, aluno_email, outs) /\ UNCHANGED notUserVars

-----------------------------------------------------------------------------
(* Claims about the users handlers *)

\* a step in which PATCH /alunos/:id/contract answered 200
PatchAnswered ==
    /\ patches' = patches + 1
    /\ userResp'.route = "PATCH /alunos/:id/contract"
    /\ userResp'.status = 200

\* the instant the contract_end of the answer names, <<>> when it is no date
AnsweredEnd == DateTime(userResp'.contract_end[1])

\* the rows the answered PATCH addressed, after the call
PatchedRows == {u \in users' : ToDecimal(u.id) = userResp'.id}

\* C4: a PATCH /alunos/:id/contract the store serves writes blocked together
\* with contract_end: a contract_end at or before the current time leaves the
\* row with blocked = 1 and answers blocked = 1, one strictly after it leaves
\* the row with blocked = 0 and answers blocked = 0, and the row holds the
\* contract_end the answer carries.
InvBlockedFlag ==
    [][PatchAnswered /\ AnsweredEnd # <<>> =>
          LET flag == IF AnsweredEnd[1] <= now THEN 1 ELSE 0
          IN /\ userResp'.blocked = <<flag>>
             /\ \A u \in PatchedRows :
                   u.blocked = <<flag>> /\ u.contract_end = userResp'.contract_end]_vars

\* C4 case: a contract_end naming the very instant of the call blocked the row
WitBlockedFlag ==
    /\ userResp.route = "PATCH /alunos/:id/contract"
    /\ userResp.status = 200
    /\ userResp.contract_end = <<[fmt |-> "iso", t |-> MaxNow]>>
    /\ userResp.blocked = <<1>>
    /\ \E u \in users :
          ToDecimal(u.id) = userResp.id /\ u.blocked = <<1>> /\ u.contract_end = userResp.contract_end

\* rows of the table mensagens added by the step for a recipient and a text
NewCopies(para, texto) ==
    CopiesIn(Mensagem(para, texto), mensagens') - CopiesIn(Mensagem(para, texto), mensagens)

\* C5: a PATCH /alunos/:id/contract of an existing user whose notice inserts
\* the store serves creates exactly one message for that user's email: the
\* expiry notice (and blocked = 1 in the answer) when contract_end is not
\* after the current time, the update notice when it is in the future.
InvContractNotice ==
    [][PatchAnswered /\ AnsweredEnd # <<>> /\ ~userResp'.swallowed =>
          \A u \in PatchedRows :
              IF AnsweredEnd[1] <= now
              THEN /\ userResp'.blocked = <<1>>
                   /\ NewCopies(u.email, ExpiredNotice) = 1
                   /\ NewCopies(u.email, UpdatedNotice) = 0
              ELSE /\ NewCopies(u.email, UpdatedNotice) = 1
                   /\ NewCopies(u.email, ExpiredNotice) = 0]_vars

\* C5 case: a past contract_end was written for the student a@x and the
\* expiry notice addressed to a@x is in the table
WitContractNotice ==
    /\ userResp.route = "PATCH /alunos/:id/contract"
    /\ userResp.status = 200
    /\ ~userResp.swallowed
    /\ userResp.blocked = <<1>>
    /\ userResp.data.email = <<"a", "@", "x">>
    /\ userResp.contract_end[1].t < now
    /\ BagIn(Mensagem(<<"a", "@", "x">>, ExpiredNotice), mensagens)

\* a step in which a request that writes a notice was answered although
\* an insert into mensagens failed
NoticeFailed ==
    /\ patches' = patches + 1
    /\ userResp'.swallowed

\* C13: once the primary write of PATCH /alunos/:id/contract or of
\* POST /treinos/:id/concluir has succeeded, a mensagens insert that returns
\* an error or throws leaves the answer the success answer (200, no error,
\* the written contract_end and blocked, or the inserted progresso row), and
\* the insert is issued once: at most one per recipient, and the rows added
\* to mensagens are exactly the notices whose insert the store served.
InvNoticeSwallowed ==
    [][NoticeFailed =>
          /\ userResp'.status = 200
          /\ userResp'.error = ""
          /\ userResp'.route = "PATCH /alunos/:id/contract" =>
                /\ userResp'.attempts <= 2
                /\ \A u \in PatchedRows : /\ userResp'.contract_end = u.contract_end
                                          /\ userResp'.blocked = u.blocked
          /\ userResp'.route = "POST /treinos/:id/concluir" =>
                /\ userResp'.attempts = 1
                /\ Len(userResp'.rows) = 1
                /\ CopiesIn(userResp'.rows[1], progresso')
                      = CopiesIn(userResp'.rows[1], progresso) + 1
          /\ Len(userResp'.sent) < userResp'.attempts
          /\ mensagens' = InsertMensagens(mensagens, userResp'.sent)]_vars

\* C13 case: the notice of a completed workout could not be inserted and the
\* request was answered 200 with the progresso row
WitNoticeSwallowed ==
    /\ userResp.route = "POST /treinos/:id/concluir"
    /\ userResp.status = 200
    /\ userResp.swallowed
    /\ userResp.sent = <<>>
    /\ BagIn(userResp.rows[1], progresso)
    /\ mensagens = EmptyBag

\* a second case: the user notice of a contract update failed, the
\* professor's was inserted, and the answer is the success answer
WitPatchNoticeSwallowed ==
    /\ userResp.route = "PATCH /alunos/:id/contract"
    /\ userResp.status = 200
    /\ userResp.swallowed
    /\ userResp.attempts = 2
    /\ Len(userResp.sent) = 1

\* C23: in PATCH /alunos/:id/contract the professor's message is inserted
\* only when a recipient is known (the user's own email when the user is a
\* professor, else the body's professor_email, else the user's criado_por)
\* and that recipient is not the updated user's email; so one call never
\* inserts two messages with the same recipient.
InvNoDuplicateNotice ==
    [][/\ patches' = patches + 1
       /\ userResp'.route = "PATCH /alunos/:id/contract"
       /\ userResp'.status = 200
       => LET added == mensagens' (-) mensagens
              user == userResp'.data
              ToProfessor(m) == m.mensagem \in {ProfExpiredNotice, ProfRenewedNotice}
          IN /\ BagCardinality(added) <= 2
             /\ \A m \in BagToSet(added) :
                   /\ CopiesIn(m, added) = 1
                   /\ \A o \in BagToSet(added) : o.para = m.para => o = m
                   /\ ToProfessor(m) =>
                         /\ m.para # user.email
                         /\ user.tipo # "professor"
                         /\ m.para \in BodyProfessors
                               \/ (user.criado_por # Null /\ m.para = user.criado_por[1])
                   /\ ~ToProfessor(m) => m.para = user.email]_vars

\* C23 case: the contract of a professor was renewed; the professor is the
\* updated user, got the user's notice and no second message
WitNoDuplicateNotice ==
    /\ userResp.route = "PATCH /alunos/:id/contract"
    /\ userResp.status = 200
    /\ userResp.data.tipo = "professor"
    /\ userResp.attempts = 1
    /\ Len(userResp.sent) = 1
    /\ userResp.sent[1].para = userResp.data.email

\* a string with no capital letter and no space at either end
IsNormalized(str) ==
    /\ \A i \in 1..Len(str) : str[i] \notin {"A", "B", "P", "X"}
    /\ str # <<>> => str[1] # " " /\ str[Len(str)] # " "

\* C10: a POST /alunos that succeeds stores and returns the user with email
\* and criado_por trimmed and lowercased ('A@X' is stored as 'a@x', 'P@X ' as
\* 'p@x'), and a GET /alunos/:id that follows it with the returned id and is
\* served by the store returns that same record.
InvCreateReadRoundTrip ==
    [][/\ (userResp'.route = "POST /alunos" /\ userResp'.status = 200
              /\ userNextId' = userNextId + 1) =>
          /\ userResp'.data \in users'
          /\ userResp'.data.email = <<"a", "@", "x">>
          /\ userResp'.data.criado_por \in {Null, <<(<<"p", "@", "x">>)>>}
          /\ IsNormalized(userResp'.data.email)
          /\ \A c \in {userResp'.data.criado_por} : c # Null => IsNormalized(c[1])
       /\ (userResp.route = "POST /alunos" /\ userResp.status = 200
              /\ userResp'.route = "GET /alunos/:id" /\ userResp'.id = userResp.id
              /\ userResp'.status # 500) =>
          /\ userResp'.status = 200
          /\ userResp'.data = userResp.data]_vars

\* C15: when the store rejects the users insert of POST /alunos with a
\* uniqueness violation (23505), the answer is 409 'Email já cadastrado',
\* never a 500, and the request adds no row to alunos nor to users.
InvConflictTranslated ==
    [][userResp'.route = "POST /alunos" /\ userResp'.code = "23505" =>
          /\ userResp'.status = 409
          /\ userResp'.error = "Email já cadastrado"
          /\ userResp'.status # 500
          /\ alunos' = alunos
          /\ users' = users]_vars

\* C15 case: a@x was created as a student, a second create of the same
\* email was rejected, and alunos still holds the one profile row
WitConflictTranslated ==
    /\ userResp.route = "POST /alunos"
    /\ userResp.code = "23505"
    /\ userResp.status = 409
    /\ Cardinality(users) = 1
    /\ BagCardinality(alunos) = 1

\* C10 case: the read that follows the create of 'A@X' enrolled by 'P@X '
\* returned the stored record with a@x and p@x
WitCreateReadRoundTrip ==
    /\ userResp.route = "GET /alunos/:id"
    /\ userResp.status = 200
    /\ userResp.fresh
    /\ userResp.data \in users
    /\ userResp.data.email = <<"a", "@", "x">>
    /\ userResp.data.criado_por = <<(<<"p", "@", "x">>)>>

-----------------------------------------------------------------------------
(* Login: POST /login, the credential lookup raced against a timer          *)

\* line 779: the timer of the race, in milliseconds
LoginTimeoutMs == 10000

\* the clock of a waiting request is read at the start, half way and when
\* the timer is due
LoginStepMs == LoginTimeoutMs \div 2

\* a login is run twice, each time against a users table of its own
LoginRuns == {1, 2}

LoginEmails == {<<>>, <<"a", "@", "x">>, <<"A", "@", "X">>, <<"b">>}
LoginSenhas == {<<>>, <<"p", "1">>, <<"p", "2">>}

\* users tables as POST /alunos leaves them; the table has no uniqueness
\* rule in the code, so two rows may carry the same email and senha
LoginStores ==
    LET row(id, email, tipo) ==
            UserRow(id, AlunoPayload(<<"n">>, email, <<"p", "1">>, tipo, <<>>, Null))
        u1 == row(1, <<"A", "@", "X">>, "")
        u2 == row(2, <<" ", "a", "@", "x", " ">>, "professor")
        u3 == row(3, <<"b">>, "")
    IN {{}, {u1}, {u1, u2}, {u3}, {u1, u3}}

SelectByEmail(table, email, senha) == {u \in table : u.email = email}

\* .from('users').select('*').eq('email', email).eq('senha', senha)
SelectUsers(table, email, senha) == {u \in table : u.email = email /\ u.senha = senha}

\* the orders in which the store may list a set of rows (no .order() is asked)
Listings(rows) ==
    {q \in [1..Cardinality(rows) -> rows] : \A i, j \in 1..Cardinality(rows) : q[i] = q[j] => i = j}

NoLoginReq == [pc |-> "idle", email |-> <<>>, senha |-> <<>>, elapsed |-> 0,
               outcome |-> "none", data |-> <<>>, loser |-> "none"]
NoLoginResp == [status |-> 0, error |-> "", user |-> NoUser]

TimeoutAsFailure ==
    [status |-> 500, error |-> "Erro ao realizar login", user |-> NoUser]

\* lines 780-787: the answer when the timer wins the race
TimeoutAnswer ==
    [status |-> 500, error |-> "Timeout ao conectar com banco de dados", user |-> NoUser]

LoginAnswerLast(out, data) ==
    IF out = "err"
    THEN [status |-> 500, error |-> "Erro ao realizar login", user |-> NoUser]
    ELSE IF data = <<>>
    THEN [status |-> 401, error |-> "Credenciais inválidas", user |-> NoUser]
    ELSE [status |-> 200, error |-> "", user |-> data[Len(data)]]

\* lines 796-816, 823-834: the answer once the lookup has settled
LoginAnswer(out, data) ==
    IF out = "err"
    THEN [status |-> 500, error |-> "Erro ao realizar login", user |-> NoUser]
    ELSE IF data = <<>>
    THEN [status |-> 401, error |-> "Credenciais inválidas", user |-> NoUser]
    ELSE [status |-> 200, error |-> "", user |-> data[1]]

\* lines 758-774: the request arrives; incomplete bodies are refused, the
\* others start the lookup and the timer
LoginStart(r, email, senha) ==
    /\ loginReq[r].pc = "idle"
    /\ IF email = <<>> \/ senha = <<>>
       THEN /\ loginReq' = [loginReq EXCEPT ![r] = [NoLoginReq EXCEPT
                               !.pc = "done", !.email = email, !.senha = senha]]
            /\ loginResp' = [loginResp EXCEPT ![r] =
                               [status |-> 400, error |-> "Email e senha são obrigatórios",
                                user |-> NoUser]]
       ELSE /\ loginReq' = [loginReq EXCEPT ![r] = [NoLoginReq EXCEPT
                               !.pc = "racing", !.email = email, !.senha = senha]]
            /\ UNCHANGED loginResp
    /\ UNCHANGED loginStore

\* time passes while the request waits
LoginWait(r) ==
    /\ loginReq[r].pc = "racing"
    /\ loginReq[r].elapsed < LoginTimeoutMs
    /\ loginReq' = [loginReq EXCEPT ![r].elapsed = @ + LoginStepMs]
    /\ UNCHANGED <<loginStore, loginResp>>

\* lines 772-784, 796-823: the lookup settles before the timer has fired
LoginSettle(r, out, data) ==
    /\ loginReq[r].pc = "racing"
    /\ data \in Listings(SelectUsers(loginStore[r], loginReq[r].email, loginReq[r].senha))
    /\ loginReq' = [loginReq EXCEPT ![r].pc = "done", ![r].outcome = out,
                                    ![r].data = IF out = "ok" THEN data ELSE <<>>]
    /\ loginResp' = [loginResp EXCEPT ![r] = LoginAnswer(out, data)]
    /\ UNCHANGED loginStore

\* lines 778-793: the timer fires first and the race rejects
LoginTimeout(r) ==
    /\ loginReq[r].pc = "racing"
    /\ loginReq[r].elapsed = LoginTimeoutMs
    /\ loginReq' = [loginReq EXCEPT ![r].pc = "timedout", ![r].outcome = "timeout"]
    /\ loginResp' = [loginResp EXCEPT ![r] = TimeoutAnswer]
    /\ UNCHANGED loginStore

\* mutant: the lookup that settles after the timeout is answered too
LoginLateAnswered(r) ==
    /\ loginReq[r].pc = "timedout"
    /\ loginReq' = [loginReq EXCEPT ![r].pc = "done", ![r].loser = "store"]
    /\ loginResp' = [loginResp EXCEPT ![r] = LoginAnswer("ok", <<>>)]
    /\ UNCHANGED loginStore

\* the lookup settles after the race is over: nobody awaits it any more
LoginLate(r) ==
    /\ loginReq[r].pc = "timedout"
    /\ loginReq' = [loginReq EXCEPT ![r].pc = "done", ![r].loser = "store"]
    /\ UNCHANGED <<loginStore, loginResp>>

\* lines 778-780: the timer, which nothing clears, fires after the lookup
\* has settled; its rejection reaches a race that is already over
LoginTimerLate(r) ==
    /\ loginReq[r].pc = "done"
    /\ loginReq[r].outcome \in {"ok", "err"}
    /\ loginReq[r].loser = "none"
    /\ loginReq' = [loginReq EXCEPT ![r].loser = "timer"]
    /\ UNCHANGED <<loginStore, loginResp>>

InitLogin ==
    /\ loginStore \in [LoginRuns -> LoginStores]
    /\ loginReq = [r \in LoginRuns |-> NoLoginReq]
    /\ loginResp = [r \in LoginRuns |-> NoLoginResp]

\* the login tables while the other routes are exercised
PinLogin ==
    /\ loginStore = [r \in LoginRuns |-> {}]
    /\ loginReq = [r \in LoginRuns |-> NoLoginReq]
    /\ loginResp = [r \in LoginRuns |-> NoLoginResp]

NextLogin ==
    \/ \E r \in LoginRuns, email \in LoginEmails, senha \in LoginSenhas :
          LoginStart(r, email, senha) /\ UNCHANGED notLoginVars
    \/ \E r \in LoginRuns : LoginWait(r) /\ UNCHANGED notLoginVars
    \/ \E r \in LoginRuns, out \in Outcomes :
          \E data \in Listings(SelectUsers(loginStore[r], loginReq[r].email, loginReq[r].senha)) :
             LoginSettle(r, out, data) /\ UNCHANGED notLoginVars
    \/ \E r \in LoginRuns : LoginTimeout(r) /\ UNCHANGED notLoginVars
    \/ \E r \in LoginRuns : LoginLate(r) /\ UNCHANGED notLoginVars
    \/ \E r \in LoginRuns : LoginTimerLate(r) /\ UNCHANGED notLoginVars

-----------------------------------------------------------------------------
(* Claims about login *)

\* the run has been answered
LoginAnswered(r) == loginReq[r].pc \in {"done", "timedout"}

\* rows of the run's table carrying the submitted email and senha
Matching(r) ==
    {u \in loginStore[r] : u.email = loginReq[r].email /\ u.senha = loginReq[r].senha}

\* C6: the answer of POST /login follows the credential match: when rows
\* carry the submitted email and senha the answer is never the 401
\* 'Credenciais inválidas', and when the lookup settles without error in
\* time it is the first row the store listed, also when several match;
\* when no row matches and the lookup settles without error in time the
\* answer is exactly 401 'Credenciais inválidas'.
InvLoginByMatch ==
    \A r \in LoginRuns :
        LoginAnswered(r) /\ loginReq[r].email # <<>> /\ loginReq[r].senha # <<>> =>
            /\ Matching(r) # {} => loginResp[r].status # 401
            /\ Matching(r) # {} /\ loginReq[r].outcome = "ok" =>
                  /\ loginResp[r].status = 200
                  /\ Len(loginReq[r].data) = Cardinality(Matching(r))
                  /\ loginResp[r].user = loginReq[r].data[1]
                  /\ loginResp[r].user \in Matching(r)
            /\ Matching(r) = {} /\ loginReq[r].outcome = "ok" =>
                  loginResp[r] = [status |-> 401, error |-> "Credenciais inválidas",
                                  user |-> NoUser]

\* C6 case: two rows matched and the login answered with the first listed
WitLoginByMatch ==
    \E r \in LoginRuns :
        /\ loginReq[r].pc = "done"
        /\ loginReq[r].outcome = "ok"
        /\ Cardinality(Matching(r)) = 2
        /\ loginResp[r].status = 200
        /\ loginResp[r].user = loginReq[r].data[1]
        /\ loginResp[r].user # loginReq[r].data[2]

\* the two runs submitted the same complete credentials, no row matches them
\* in either table, and the tables agree on the rows of every other email
SameLoginNoMatch ==
    /\ LoginAnswered(1) /\ LoginAnswered(2)
    /\ loginReq[1].email # <<>> /\ loginReq[1].senha # <<>>
    /\ loginReq[1].email = loginReq[2].email
    /\ loginReq[1].senha = loginReq[2].senha
    /\ Matching(1) = {} /\ Matching(2) = {}
    /\ {u \in loginStore[1] : u.email # loginReq[1].email}
          = {u \in loginStore[2] : u.email # loginReq[1].email}

\* C7: two logins with the same credentials that match no row, against
\* tables that differ only in the rows carrying the submitted email, get the
\* same status and body whenever the store treats them alike; when the
\* lookup settles without error in time both get 401 'Credenciais inválidas'.
InvLoginNoLeak ==
    SameLoginNoMatch /\ loginReq[1].outcome = loginReq[2].outcome =>
        /\ loginResp[1] = loginResp[2]
        /\ loginReq[1].outcome = "ok" =>
              loginResp[1] = [status |-> 401, error |-> "Credenciais inválidas",
                              user |-> NoUser]

\* C7 case: the email is known in one table (with another senha) and unknown
\* in the other, and both logins were answered 401
WitLoginNoLeak ==
    /\ SameLoginNoMatch
    /\ loginReq[1].outcome = "ok" /\ loginReq[2].outcome = "ok"
    /\ \E u \in loginStore[1] : u.email = loginReq[1].email
    /\ \A u \in loginStore[2] : u.email # loginReq[1].email
    /\ loginResp[1].status = 401 /\ loginResp[2].status = 401

\* C8: when the timer fires before the lookup has settled, POST /login
\* answers 500 'Timeout ao conectar com banco de dados' once the 10 seconds
\* have passed; that answer is not the 401 'Credenciais inválidas' and not
\* the 'Erro ao realizar login' of a failed lookup, and no other path of the
\* handler gives it.
InvLoginTimeout ==
    \A r \in LoginRuns :
        /\ loginReq[r].outcome = "timeout" =>
              /\ loginReq[r].elapsed = LoginTimeoutMs
              /\ loginResp[r].status = 500
              /\ loginResp[r].error = "Timeout ao conectar com banco de dados"
              /\ loginResp[r].user = NoUser
              /\ loginResp[r].status # 401
              /\ loginResp[r].error # "Erro ao realizar login"
        /\ loginResp[r].error = "Timeout ao conectar com banco de dados" =>
              loginReq[r].outcome = "timeout"
        /\ loginReq[r].outcome = "err" => loginResp[r].error = "Erro ao realizar login"

\* C8 case: credentials that match a row timed out, and the late answer of
\* the store changed nothing
WitLoginTimeout ==
    \E r \in LoginRuns :
        /\ loginReq[r].pc = "done"
        /\ loginReq[r].outcome = "timeout"
        /\ Matching(r) # {}
        /\ loginResp[r].status = 500
        /\ loginResp[r].error = "Timeout ao conectar com banco de dados"

\* C27: a POST /login request gets exactly one response, in either order of
\* the lookup and the 10-second timer.  When the timer fires first, the
\* lookup that settles later sends nothing and changes nothing; when the
\* lookup settles first, the timer that fires later sends nothing.
InvOneResponse ==
    [][\A r \in LoginRuns :
          /\ loginResp'[r] # loginResp[r] =>
                /\ loginResp[r] = NoLoginResp
                /\ loginReq[r].pc \in {"idle", "racing"}
                /\ loginReq'[r].pc \in {"done", "timedout"}
          /\ loginReq'[r].pc \in {"done", "timedout"} => loginResp'[r] # NoLoginResp
          /\ loginReq'[r].pc \in {"idle", "racing"} => loginResp'[r] = NoLoginResp
          /\ loginReq[r].pc \in {"done", "timedout"} /\ loginReq'[r] # loginReq[r] =>
                /\ loginResp' = loginResp
                /\ loginStore' = loginStore
                /\ loginReq'[r].pc = "done"
                /\ loginReq'[r].loser
                      = IF loginReq[r].pc = "timedout" THEN "store" ELSE "timer"]_vars

\* C27 case: one login whose lookup settled after the timeout, another
\* whose timer fired after the lookup was answered; each has the one answer
\* of the event that came first
WitOneResponse ==
    \E r, o \in LoginRuns :
        /\ loginReq[r].pc = "done" /\ loginReq[r].loser = "store"
        /\ loginResp[r] = TimeoutAnswer
        /\ loginReq[o].pc = "done" /\ loginReq[o].loser = "timer"
        /\ loginResp[o].status = 200

\* rows of the run's table carrying the submitted senha and the submitted
\* email in its trimmed, lowercased spelling
MatchingNormalized(r) ==
    {u \in loginStore[r] : /\ u.email = ToLowerCase(Trim(loginReq[r].email))
                           /\ u.senha = loginReq[r].senha}

\* C11: every email used as a lookup filter is trimmed and lowercased first,
\* so a lookup with another spelling of a stored email finds the same rows:
\* a login the store serves in time is answered 200 with one of the rows
\* stored under the normalized spelling of the submitted email whenever
\* such a row carries the submitted senha.
InvLoginEmailNormalized ==
    \A r \in LoginRuns :
        LoginAnswered(r) /\ loginReq[r].outcome = "ok" /\ MatchingNormalized(r) # {} =>
            loginResp[r].status = 200 /\ loginResp[r].user \in MatchingNormalized(r)

\* C11 case: 'A@X' was submitted with the senha of the stored a@x and the
\* login, served in time, was answered 401
WitLoginEmailAsSent ==
    \E r \in LoginRuns :
        /\ loginReq[r].pc = "done"
        /\ loginReq[r].outcome = "ok"
        /\ loginReq[r].email = <<"A", "@", "X">>
        /\ MatchingNormalized(r) # {}
        /\ loginResp[r].status = 401

-----------------------------------------------------------------------------
(* Feed: GET /posts/feed/:limit/:offset                                      *)

\* line 1499: the page size when none (or 0) is asked, and the largest one
FeedDefaultLimit == 20
FeedMaxLimit == 100
\* line 1523: comments fetched for the preview of a post
PreviewLimit == 3

Min(a, b) == IF a <= b THEN a ELSE b
Max(a, b) == IF a >= b THEN a ELSE b

\* parseInt(x) || d: NaN and 0 are falsy
OrDefault(parsed, d) == IF parsed = <<>> \/ parsed = <<0>> THEN d ELSE parsed[1]

\* line 1499: Math.min(parseInt(req.params.limit) || 20, 100)
FeedLimit(param) == Min(OrDefault(ParseInt(param), FeedDefaultLimit), FeedMaxLimit)

\* line 1500: Math.max(parseInt(req.params.offset) || 0, 0)
FeedOffset(param) == Max(OrDefault(ParseInt(param), 0), 0)

\* path parameters of the feed
LimitParams == {<<"1", "5", "0">>, <<"1", "0", "0">>, <<"2">>, <<"0">>, <<"-", "5">>, <<"x">>}
OffsetParams == {<<"-", "5">>, <<"0">>, <<"1">>, <<"3">>, <<"7">>, <<"x">>}

\* .range(from, to) over the ordered rows: positions from..to, counted from 0
RangeOf(rows, from, to) ==
    IF to < from THEN <<>> ELSE SubSeq(rows, from + 1, Min(to + 1, Len(rows)))

\* the comments of a post are numbered in the order of their criado_em;
\* .order('criado_em', {ascending: false}).limit(n) gives the last n, newest
\* first
RecentComments(post, n) ==
    [i \in 1..Min(comentarios[post], n) |-> comentarios[post] + 1 - i]

\* comentarios_count as the number of comments stored for the post
EnrichedCountAll(post, outCurtidas, outComentarios) ==
    [id |-> post,
     curtidas_count |-> IF outCurtidas = "ok" THEN LikeCount(curtidas, post) ELSE 0,
     comentarios_count |-> IF outComentarios = "ok" THEN comentarios[post] ELSE 0,
     comentarios_preview |-> IF outComentarios = "ok"
                             THEN RecentComments(post, PreviewLimit) ELSE <<>>,
     counted |-> outCurtidas = "ok",
     previewed |-> outComentarios = "ok"]

\* lines 1512-1530: a post with its like and comment figures; a figure the
\* store fails to give counts as 0, a preview it fails to give is empty;
\* counted and previewed tell whether the store served the two lookups
Enriched(post, outCurtidas, outComentarios) ==
    LET preview == IF outComentarios = "ok"
                   THEN RecentComments(post, PreviewLimit) ELSE <<>>
    IN [id |-> post,
        curtidas_count |-> IF outCurtidas = "ok" THEN LikeCount(curtidas, post) ELSE 0,
        comentarios_count |-> Len(preview),
        comentarios_preview |-> preview,
        counted |-> outCurtidas = "ok",
        previewed |-> outComentarios = "ok"]

NoFeedResp == [status |-> 0, error |-> "", limit |-> 0, offset |-> 0, from |-> 0, to |-> 0,
               served |-> FALSE, rows |-> <<>>]

\* lines 1497-1538: GET /posts/feed/:limit/:offset
FeedGet(limitParam, offsetParam, outs) ==
    LET limit == FeedLimit(limitParam)
        offset == FeedOffset(offsetParam)
        from == offset
        to == offset + limit - 1
        page == RangeOf(posts, from, to)
        asked == [NoFeedResp EXCEPT !.limit = limit, !.offset = offset,
                                    !.from = from, !.to = to]
    IN /\ feedResp' =
            IF outs[1] = "err"
            THEN [asked EXCEPT !.status = 500, !.error = "Erro ao carregar posts"]
            ELSE [asked EXCEPT !.status = 200, !.served = TRUE,
                               !.rows = [i \in 1..Len(page) |->
                                            Enriched(page[i], outs[2], outs[3])]]
       /\ UNCHANGED <<posts, comentarios>>

\* the feed tables while the other routes are exercised
PinFeed ==
    /\ posts = <<>>
    /\ comentarios = [p \in 1..MaxPosts |-> 0]
    /\ feedResp = NoFeedResp

\* posts n..1, newest first; the first post may carry more comments than
\* the preview fetches
InitFeed ==
    /\ posts \in {[i \in 1..n |-> n + 1 - i] : n \in 0..MaxPosts}
    /\ comentarios \in {[p \in 1..MaxPosts |-> IF p = 1 THEN c ELSE 0] : c \in {0, PreviewLimit + 1}}
    /\ feedResp = NoFeedResp

\* the likes the posts carry when the feed is read: none, or two of post 1
\* and one of post 2
InitFeedLikes ==
    /\ curtidas \in {EmptyBag,
                      SetToBag({LikeRow(1, <<"a">>), LikeRow(1, <<"b">>), LikeRow(2, <<"a">>)})}
    /\ likeReq = [r \in Slots |-> IdleLike]
    /\ likeLog = [k \in LikePairs |-> <<>>]
    /\ getResp = NoResp

NextFeed ==
    \E limitParam \in LimitParams, offsetParam \in OffsetParams, outs \in Outcomes \X Outcomes \X Outcomes :
        FeedGet(limitParam, offsetParam, outs) /\ UNCHANGED notFeedVars

-----------------------------------------------------------------------------
(* Claims about the feed *)

\* C9: every GET /posts/feed/:limit/:offset asks the store for a range with
\* an effective limit in 0..100 and an effective offset of at least 0, so the
\* range is neither negative nor inverted, and a request whose offset is past
\* the last post, served by the store, answers 200 with an empty list.
InvFeedClamp ==
    feedResp.status # 0 =>
        /\ feedResp.limit \in 0..FeedMaxLimit
        /\ feedResp.offset >= 0
        /\ feedResp.from >= 0
        /\ feedResp.to >= feedResp.from - 1
        /\ feedResp.served /\ feedResp.offset >= Len(posts) =>
              feedResp.status = 200 /\ feedResp.rows = <<>>

\* the part of C9 the handler keeps: the limit never exceeds 100, the offset
\* is never negative, and a served request past the last post answers 200
\* with an empty list
InvFeedUpperClamp ==
    feedResp.status # 0 =>
        /\ feedResp.limit <= FeedMaxLimit
        /\ feedResp.offset >= 0
        /\ feedResp.from >= 0
        /\ feedResp.served /\ feedResp.offset >= Len(posts) =>
              feedResp.status = 200 /\ feedResp.rows = <<>>

\* C9 case: limit -5 was asked and the store was asked for the range 0..-6
WitFeedNegativeLimit ==
    /\ feedResp.status # 0
    /\ feedResp.limit = 0 - 5
    /\ feedResp.from = 0
    /\ feedResp.to = 0 - 6

-----------------------------------------------------------------------------
(* The stub client installed when the store URL or key is absent            *)
(* (supabaseClient.js), under a handler of the GET /users shape             *)

NotConfigured == "Supabase not configured (SUPABASE_URL/SUPABASE_SERVICE_KEY missing or invalid)"

\* the chains of client calls the handlers make after supabase.from(table)
StubChains ==
    {<<"select">>, <<"select", "eq">>, <<"select", "eq", "maybeSingle">>,
     <<"select", "order", "range">>, <<"insert">>, <<"insert", "select">>,
     <<"update", "eq">>, <<"upsert">>, <<"upsert", "select">>, <<"delete", "eq">>}

\* what a method call on an object of the stub gives: "from" is the object
\* supabaseStub.from() returns, "chain" is stubChain, "promise" is the
\* promise stubResponse() returns, "none" is a call of a missing method
StubCallOn(obj, method) ==
    CASE obj = "from" /\ method = "select" -> "chain"
      [] obj = "from" /\ method \in {"insert", "update", "delete", "upsert",
                                     "maybeSingle", "single"} -> "promise"
      [] obj = "from" /\ method = "eq" -> "from"
      [] obj = "chain" /\ method \in {"select", "insert", "update", "delete", "upsert",
                                      "maybeSingle", "single", "range"} -> "promise"
      [] obj = "chain" /\ method \in {"eq", "order"} -> "chain"
      [] OTHER -> "none"

\* await obj: the promise settles with {data: null, error}; stubChain is a
\* thenable whose then() never calls the callbacks it is given, so the
\* await never settles; the from object is no thenable and is the result
StubAwaitOf(obj) ==
    CASE obj = "promise" -> "error"
      [] obj = "chain" -> "never"
      [] OTHER -> "plain"

NoStubReq == [pc |-> "idle", chain |-> <<>>, rest |-> <<>>, obj |-> "from"]
NoStubResp == [status |-> 0, error |-> ""]

StubSlots == {1, 2}

\* a request arrives and the handler calls supabase.from(table)
StubStart(s, chain) ==
    /\ stubReq[s].pc \in {"idle", "answered"}
    /\ stubReq' = [stubReq EXCEPT ![s] = [pc |-> "calling", chain |-> chain,
                                         rest |-> chain, obj |-> "from"]]
    /\ stubResp' = [stubResp EXCEPT ![s] = NoStubResp]

\* the next call of the chain; a call of a missing method throws a
\* TypeError, which the catch of the handler answers with its message
StubCall(s) ==
    /\ stubReq[s].pc = "calling"
    /\ stubReq[s].rest # <<>>
    /\ LET next == StubCallOn(stubReq[s].obj, Head(stubReq[s].rest))
       IN IF next = "none"
          THEN /\ stubReq' = [stubReq EXCEPT ![s].pc = "answered"]
               /\ stubResp' = [stubResp EXCEPT ![s] =
                                  [status |-> 500, error |-> "is not a function"]]
          ELSE /\ stubReq' = [stubReq EXCEPT ![s].obj = next, ![s].rest = Tail(@)]
               /\ UNCHANGED stubResp

\* lines 268-279 of index.js: const { data, error } = await <chain>;
\* if (error) throw error; res.json(data); catch: 500 with error.message
StubAwait(s) ==
    /\ stubReq[s].pc = "calling"
    /\ stubReq[s].rest = <<>>
    /\ LET settled == StubAwaitOf(stubReq[s].obj)
       IN IF settled = "never"
          THEN /\ stubReq' = [stubReq EXCEPT ![s].pc = "waiting"]
               /\ UNCHANGED stubResp
          ELSE /\ stubReq' = [stubReq EXCEPT ![s].pc = "answered"]
               /\ stubResp' = [stubResp EXCEPT ![s] =
                                  IF settled = "error"
                                  THEN [status |-> 500, error |-> NotConfigured]
                                  ELSE [status |-> 200, error |-> ""]]

PinStub ==
    /\ stubReq = [s \in StubSlots |-> NoStubReq]
    /\ stubResp = [s \in StubSlots |-> NoStubResp]

NextStub ==
    \/ \E s \in StubSlots, chain \in StubChains : StubStart(s, chain) /\ UNCHANGED notStubVars
    \/ \E s \in StubSlots : StubCall(s) /\ UNCHANGED notStubVars
    \/ \E s \in StubSlots : StubAwait(s) /\ UNCHANGED notStubVars

\* C12: with the stub client every store-dependent request ends with an
\* error response carrying 'Supabase not configured', whatever chain of
\* client calls it makes: no request is left waiting for the client for
\* ever and every answer is that error.
InvStubUniform ==
    \A s \in StubSlots :
        /\ stubReq[s].pc # "waiting"
        /\ stubReq[s].pc = "answered" =>
              stubResp[s].status >= 400 /\ stubResp[s].error = NotConfigured

\* C12 case: GET /users awaited supabase.from('users').select('*') of the
\* stub and waits for an answer that never comes
WitStubNeverAnswers ==
    \E s \in StubSlots :
        /\ stubReq[s].chain = <<"select">>
        /\ stubReq[s].pc = "waiting"
        /\ stubResp[s] = NoStubResp

-----------------------------------------------------------------------------
(* Contracts: POST /contracts, GET /contracts/:id/pdf, DELETE /contracts/:id *)

\* a relative path as the handlers build it: directories and a file name
UploadPath(kind, t) == [dirs |-> <<"uploads", "contracts">>, file |-> [kind |-> kind, t |-> t]]

\* path.join(process.cwd(), ...) of a path relative to the working directory
FromCwd(path) == [dirs |-> <<"cwd">> \o path.dirs, file |-> path.file]

\* lines 642-643: filePath.replace(/^uploads\/?/, '') joined to cwd/uploads
PdfLocation(path) ==
    [dirs |-> <<"cwd", "uploads">>
                 \o (IF path.dirs # <<>> /\ Head(path.dirs) = "uploads"
                     THEN Tail(path.dirs) ELSE path.dirs),
     file |-> path.file]

Base64Pdf == <<"JVBERi0xLjQ=">>
SignatureUri == <<"data:image/png;base64,iVBORw0KGgo=">>

NoContract == [id |-> 0, aluno_email |-> Null, arquivo_path |-> Null,
               professor_email |-> Null, dados |-> Null, criado_por |-> Null,
               pdf_path |-> Null]

NoContractResp == [route |-> "", status |-> 0, error |-> "", sentFile |-> Null,
                   wrote |-> {}, sigFailed |-> FALSE, id |-> 0, actor |-> Null]

\* bodies of POST /contracts: professor_email, pdf_base64, dados.signature,
\* signature, each absent or present
ContractBodies ==
    [professor_email : {Null, <<(<<"P", "@", "X", " ">>)>>},
     pdf_base64 : {Null, Base64Pdf},
     dados_signature : {Null, SignatureUri},
     signature : {Null, SignatureUri}]

\* outcomes of the two disk writes and of the insert ("column" is the
\* store refusing an unknown column and serving the simplified record,
\* "columnerr" refusing that one too, "err" any other error)
ContractOutcomes == {"ok", "fail"} \X {"ok", "fail"} \X {"ok", "column", "columnerr", "err"}

\* lines 404-421: the record built from the body after the attachments
\* were handled; dados is kept only when the body has one
ContractRecord(body, pdfSaved, sigSaved) ==
    LET hasSig == body.dados_signature # Null \/ body.signature # Null
        dados == IF body.dados_signature # Null /\ ~sigSaved
                 THEN <<[signature |-> body.dados_signature]>>
                 ELSE IF body.dados_signature # Null \/ (hasSig /\ sigSaved)
                 THEN <<[signature |-> Null]>>
                 ELSE Null
    IN [NoContract EXCEPT
           !.aluno_email = <<Trim(ToLowerCase(<<" ", "A", "@", "X">>))>>,
           !.arquivo_path = IF pdfSaved THEN <<UploadPath("contract", now)>> ELSE Null,
           !.professor_email = IF body.professor_email = Null THEN Null
                               ELSE <<Trim(ToLowerCase(body.professor_email[1]))>>,
           !.dados = dados]

\* lines 349-446: POST /contracts
PostContract(body, outs) ==
    LET pdfSaved == body.pdf_base64 # Null /\ outs[1] = "ok"
        hasSig == body.dados_signature # Null \/ body.signature # Null
        sigSaved == hasSig /\ outs[2] = "ok"
        written == (IF pdfSaved THEN {FromCwd(UploadPath("contract", now))} ELSE {})
                      \cup (IF sigSaved THEN {FromCwd(UploadPath("signature", now))} ELSE {})
        record == ContractRecord(body, pdfSaved, sigSaved)
        simple == [record EXCEPT !.professor_email = Null, !.dados = Null]
        stored == IF outs[3] = "column" THEN simple ELSE record
    IN /\ contractNextId <= MaxContracts + 1
       /\ files' = files \cup written
       /\ IF outs[3] \in {"err", "columnerr"}
          THEN /\ contractResp' = [NoContractResp EXCEPT !.route = "POST /contracts",
                                      !.status = 500, !.error = "store error",
                                      !.wrote = written]
               /\ UNCHANGED <<contracts, contractNextId>>
          ELSE /\ contracts' = contracts \cup {[stored EXCEPT !.id = contractNextId]}
               /\ contractNextId' = contractNextId + 1
               /\ contractResp' = [NoContractResp EXCEPT !.route = "POST /contracts",
                                      !.status = 200, !.wrote = written,
                                      !.sigFailed = hasSig /\ ~sigSaved]

\* lines 631-648: GET /contracts/:id/pdf; sendFile of a file that is not
\* on disk ends in the 404 of the framework
GetContractPdf(id, out) ==
    LET found == {c \in contracts : c.id = id}
        data == IF found = {} THEN NoContract ELSE CHOOSE c \in found : TRUE
        answer(status, error) ==
            [NoContractResp EXCEPT !.route = "GET /contracts/:id/pdf", !.id = id,
                                   !.status = status, !.error = error]
    IN /\ contractResp' =
            IF out = "err" THEN answer(500, "Erro ao obter PDF")
            ELSE IF data = NoContract THEN answer(404, "Contrato não encontrado")
            ELSE IF data.pdf_path = Null
            THEN answer(404, "PDF não encontrado para este contrato")
            ELSE IF PdfLocation(data.pdf_path[1]) \notin files THEN answer(404, "Not Found")
            ELSE [answer(200, "") EXCEPT !.sentFile = <<PdfLocation(data.pdf_path[1])>>]
       /\ UNCHANGED <<contracts, contractNextId, files>>

\* professor_email of the query string: absent, the owner in another
\* spelling, somebody else
ActorEmails == {Null, <<(<<" ", "P", "@", "x">>)>>, <<(<<"e", "@", "x">>)>>}

\* line 661: the request is refused only when the actor is given and both
\* owner fields are present and differ from it
Refused(existing, professorEmail) ==
    /\ professorEmail # Null
    /\ existing.criado_por # Null
    /\ ToLowerCase(Trim(existing.criado_por[1])) # professorEmail[1]
    /\ existing.professor_email # Null
    /\ ToLowerCase(Trim(existing.professor_email[1])) # professorEmail[1]

\* lines 651-671: DELETE /contracts/:id?professor_email=...
DeleteContract(id, actor, outs) ==
    LET professorEmail == IF actor = Null THEN Null ELSE <<ToLowerCase(Trim(actor[1]))>>
        found == {c \in contracts : c.id = id}
        answer(status, error) ==
            [NoContractResp EXCEPT !.route = "DELETE /contracts/:id", !.id = id,
                                   !.actor = actor, !.status = status, !.error = error]
    IN /\ IF outs[1] = "err"
          THEN contractResp' = answer(500, "Erro ao deletar contrato") /\ UNCHANGED contracts
          ELSE IF found = {}
          THEN contractResp' = answer(404, "Contrato não encontrado") /\ UNCHANGED contracts
          ELSE IF Refused(CHOOSE c \in found : TRUE, professorEmail)
          THEN /\ contractResp' = answer(403, "Não autorizado para excluir este contrato")
               /\ UNCHANGED contracts
          ELSE IF outs[2] = "err"
          THEN contractResp' = answer(500, "Erro ao deletar contrato") /\ UNCHANGED contracts
          ELSE /\ contracts' = contracts \ found
               /\ contractResp' = answer(200, "")
       /\ UNCHANGED <<contractNextId, files>>

PinContracts ==
    /\ contracts = {}
    /\ contractNextId = 1
    /\ files = {}
    /\ contractResp = NoContractResp

\* the table may hold a row written by another client of the store, with
\* the owner fields and a pdf_path the handlers read; its file may be gone
SeedContract ==
    [NoContract EXCEPT !.id = 1, !.aluno_email = <<(<<"a", "@", "x">>)>>,
                       !.professor_email = <<(<<"p", "@", "x">>)>>,
                       !.criado_por = <<(<<"P", "@", "X">>)>>,
                       !.pdf_path = <<UploadPath("contract", 0)>>]

InitContracts ==
    /\ contracts \in {{}, {SeedContract}}
    /\ contractNextId = 2
    /\ files \in {{}, {FromCwd(UploadPath("contract", 0))}}
    /\ contractResp = NoContractResp

ContractIds == 1..(MaxContracts + 1)

NextContracts ==
    \/ \E body \in ContractBodies, outs \in ContractOutcomes :
          PostContract(body, outs) /\ UNCHANGED notContractVars
    \/ \E id \in ContractIds, out \in Outcomes :
          GetContractPdf(id, out) /\ UNCHANGED notContractVars
    \/ \E id \in ContractIds, actor \in ActorEmails, outs \in Outcomes \X Outcomes :
          DeleteContract(id, actor, outs) /\ UNCHANGED notContractVars

-----------------------------------------------------------------------------
(* Claims about contracts *)

\* the actor email equals, case-insensitively, one of the owner fields
Authorized(c, actor) ==
    /\ actor # Null
    /\ \/ c.criado_por # Null
            /\ ToLowerCase(Trim(c.criado_por[1])) = ToLowerCase(Trim(actor[1]))
       \/ c.professor_email # Null
            /\ ToLowerCase(Trim(c.professor_email[1])) = ToLowerCase(Trim(actor[1]))

\* C14: DELETE /contracts/:id deletes the row only when the professor_email
\* of the query equals, case-insensitively, the contract's criado_por or
\* professor_email: a row leaves the table only for such an actor, and a
\* served request of any other actor for an existing contract is answered
\* 403 with the row left in the table.
InvDeleteAuthorized ==
    [][contractResp'.route = "DELETE /contracts/:id" =>
          \A c \in contracts :
              c.id = contractResp'.id =>
                  /\ c \notin contracts' => Authorized(c, contractResp'.actor)
                  /\ (~Authorized(c, contractResp'.actor) /\ contractResp'.status # 500) =>
                        contractResp'.status = 403 /\ c \in contracts']_vars

\* C14 case: the contract owned by p@x was deleted for the actor e@x
WitDeleteByStranger ==
    /\ contractResp.route = "DELETE /contracts/:id"
    /\ contractResp.status = 200
    /\ contractResp.actor = <<(<<"e", "@", "x">>)>>
    /\ contractResp.id = 2
    /\ \A c \in contracts : c.id # 2
    /\ contractNextId = 3

\* C17: no base64 payload reaches the table contracts: every row holds its
\* attachments as paths only and its dados carries no signature data URI,
\* also when writing the decoded file to disk failed.
InvNoBase64Stored ==
    \A c \in contracts :
        /\ c.dados # Null => c.dados[1].signature = Null
        /\ c.arquivo_path # Null => c.arquivo_path[1].dirs = <<"uploads", "contracts">>

\* C17 case: the signature file could not be written and the inserted row
\* carries the data URI inside dados
WitBase64Stored ==
    /\ contractResp.route = "POST /contracts"
    /\ contractResp.status = 200
    /\ contractResp.sigFailed
    /\ \E c \in contracts : c.dados = <<[signature |-> SignatureUri]>>

\* the relative path a contracts row holds for its PDF
StoredPath(c) == IF c.pdf_path # Null THEN c.pdf_path ELSE c.arquivo_path

\* C18: GET /contracts/:id/pdf, served by the store for an existing
\* contract, streams the file at the location derived from the relative path
\* the record holds, and answers 404 only when the record holds no path or
\* the file is not on disk.
InvPdfRoundTrip ==
    contractResp.route = "GET /contracts/:id/pdf" /\ contractResp.status # 500 =>
        \A c \in contracts :
            c.id = contractResp.id =>
                IF StoredPath(c) # Null /\ FromCwd(StoredPath(c)[1]) \in files
                THEN /\ contractResp.status = 200
                     /\ contractResp.sentFile = <<FromCwd(StoredPath(c)[1])>>
                ELSE contractResp.status = 404

\* C18 case: a contract created with a PDF holds its path in arquivo_path,
\* the file is on disk, and the request for its PDF was answered 404
WitPdfNotFound ==
    /\ contractResp.route = "GET /contracts/:id/pdf"
    /\ contractResp.status = 404
    /\ \E c \in contracts :
          /\ c.id = contractResp.id
          /\ c.arquivo_path # Null
          /\ FromCwd(c.arquivo_path[1]) \in files

-----------------------------------------------------------------------------
(* Optional tables: GET /progresso/:email, GET /consultorias/:clientId,    *)
(* GET /admin-contracts                                                    *)

\* the code with which the store answers a request on a table it does not
\* have (lines 172, 197, 474 test for it)
MissingTable == "PGRST205"

\* the answers of a select: rows, the store's missing-table code, the
\* database's undefined-relation code, any other error
TableOutcomes == {"ok", MissingTable, "42P01", "err"}

NoOptResp == [route |-> "", status |-> 0, error |-> "", items |-> EmptyBag,
              email |-> <<>>, usersCode |-> "", progressoCode |-> "",
              consultoriasCode |-> "", adminCode |-> "", message |-> "",
              contract_end |-> Null]

RECURSIVE SumCopies(_, _)
SumCopies(S, B) ==
    IF S = {} THEN 0
    ELSE LET r == CHOOSE x \in S : TRUE IN CopiesIn(r, B) + SumCopies(S \ {r}, B)

\* the rows of table B that pass keep, each mapped with item
MapRows(B, keep(_), item(_)) ==
    LET rs == {r \in BagToSet(B) : keep(r)}
    IN [i \in {item(r) : r \in rs} |-> SumCopies({r \in rs : item(r) = i}, B)]

\* lines 220-224: a progresso row as the frontend expects it
MappedProgresso(r) == [kind |-> "progresso", treino_id |-> <<r.treino_id>>]

\* lines 226-229: a consultorias row as the frontend expects it
MappedConsultoria(r) == [kind |-> r.tipo, treino_id |-> Null]

\* the consultations of the user with id client_id, as GET /progresso lists them
ConsultoriasOf(client_id) ==
    LET Mine(r) == r.client_id = client_id
    IN MapRows(consultorias, Mine, MappedConsultoria)

\* the email of the path: absent, the student a@x, an email no user has
ProgressoEmails == {<<>>, <<" ", "A", "@", "X">>, <<"b">>}

\* lines 181-244: GET /progresso/:email.  outs are the answers of the users
\* lookup, of the progresso select and of the consultorias select.  The
\* answer is the bag of its items; their order by date is not modelled.
GetProgresso(emailParam, outs) ==
    LET email == ToLowerCase(Trim(emailParam))
        found == {u \in users : u.email = email}
        user == IF found # {} THEN CHOOSE u \in found : TRUE ELSE NoUser
        Mine(r) == r.aluno_email = email
        progressoRows == IF outs[2] = "ok" THEN MapRows(progresso, Mine, MappedProgresso)
                         ELSE EmptyBag
        asked == user # NoUser /\ user.id # 0
        consultoriasRows == IF asked /\ outs[3] = "ok" THEN ConsultoriasOf(user.id)
                            ELSE EmptyBag
        base == [NoOptResp EXCEPT !.route = "GET /progresso/:email", !.email = email]
    IN /\ optResp' =
            IF email = <<>>
            THEN [base EXCEPT !.status = 400, !.error = "email é obrigatório"]
            ELSE IF outs[1] # "ok" \/ Cardinality(found) > 1
            THEN [base EXCEPT !.status = 500, !.error = "Erro ao buscar progresso",
                              !.usersCode = "err"]
            ELSE IF outs[2] \notin {"ok", "PGRST205"}
            THEN [base EXCEPT !.status = 500, !.error = "Erro ao buscar progresso",
                              !.usersCode = "ok", !.progressoCode = outs[2]]
            ELSE [base EXCEPT !.status = 200, !.usersCode = "ok",
                              !.progressoCode = outs[2],
                              !.consultoriasCode = IF asked THEN outs[3] ELSE "",
                              !.items = progressoRows (+) consultoriasRows]
       /\ UNCHANGED <<consultorias, admin_contracts>>

\* lines 1304-1346: GET /consultorias/:clientId
GetConsultorias(param, out) ==
    LET clientId == ParseInt(Trim(BeforeColon(param)))
        Mine(r) == r.client_id = clientId[1]
        Same(r) == [kind |-> r.tipo, treino_id |-> Null]
        base == [NoOptResp EXCEPT !.route = "GET /consultorias/:clientId"]
    IN /\ optResp' =
            IF clientId = <<>> \/ clientId = <<0>>
            THEN [base EXCEPT !.status = 400, !.error = "clientId inválido"]
            ELSE IF out = "42P01"
            THEN [base EXCEPT !.status = 200, !.consultoriasCode = out]
            ELSE IF out # "ok"
            THEN [base EXCEPT !.status = 500, !.error = "Erro ao buscar consultorias",
                              !.consultoriasCode = out]
            ELSE [base EXCEPT !.status = 200, !.consultoriasCode = out,
                              !.items = MapRows(consultorias, Mine, Same)]
       /\ UNCHANGED <<consultorias, admin_contracts>>

\* lines 941-945: a date column holds a day; new Date(day).toISOString()
\* .split('T')[0] is that day again, and an absent day stays absent
NormalDay(d) == IF d = Null THEN Null ELSE d

\* lines 925-954: GET /admin-contracts
GetAdminContracts(out) ==
    LET All(r) == TRUE
        Normalized(r) == [kind |-> r.status, treino_id |-> NormalDay(r.contract_end)]
        base == [NoOptResp EXCEPT !.route = "GET /admin-contracts", !.adminCode = out]
    IN /\ optResp' =
            IF out # "ok" THEN [base EXCEPT !.status = 200]
            ELSE [base EXCEPT !.status = 200,
                              !.items = MapRows(admin_contracts, All, Normalized)]
       /\ UNCHANGED <<consultorias, admin_contracts>>

PinOptional ==
    /\ consultorias = EmptyBag
    /\ admin_contracts = EmptyBag
    /\ optResp = NoOptResp

\* the optional tables when the reads start: empty, or with consultations of
\* the student (id 1) and of another client, and one administrative contract
InitOptional ==
    /\ consultorias \in
          {EmptyBag,
           SetToBag({[client_id |-> 1, tipo |-> "consultoria"]}),
           SetToBag({[client_id |-> 1, tipo |-> "consultoria"],
                     [client_id |-> 2, tipo |-> "bio"]})}
    /\ admin_contracts \in
          {EmptyBag, SetToBag({[professor_email |-> <<"p", "@", "x">>,
                                status |-> "active", contract_end |-> <<2>>]})}
    /\ optResp = NoOptResp

ClientParams == {<<"1">>, <<"2">>, <<"1", ":", "x">>, <<"x">>, <<"0">>}

NextOptional ==
    \/ \E email \in ProgressoEmails, outs \in Outcomes \X TableOutcomes \X TableOutcomes :
          GetProgresso(email, outs) /\ UNCHANGED notOptVars /\ UNCHANGED userVars
    \/ \E param \in ClientParams, out \in TableOutcomes :
          GetConsultorias(param, out) /\ UNCHANGED notOptVars /\ UNCHANGED userVars
    \/ \E out \in TableOutcomes :
          GetAdminContracts(out) /\ UNCHANGED notOptVars /\ UNCHANGED userVars
    \/ \E treinoId \in {1}, aluno_email \in ConcluirEmails, outs \in ConcluirOutcomes :
          ConcluirTreino(treinoId, aluno_email, outs) /\ UNCHANGED notUserVars

-----------------------------------------------------------------------------
(* Claims about the optional tables *)

\* C16: the absence of an optional table is downgraded.  With progresso
\* missing, GET /progresso/:email answers 200 with the student's
\* consultations; with consultorias missing, GET /consultorias/:clientId
\* answers 200 with an empty list; with admin_contracts missing,
\* GET /admin-contracts answers 200 with an empty list; an error of the users
\* lookup of GET /progresso/:email answers 500.
InvOptionalDowngraded ==
    /\ optResp.route = "GET /progresso/:email" /\ optResp.usersCode = "err" =>
          optResp.status = 500
    /\ /\ optResp.route = "GET /progresso/:email"
       /\ optResp.progressoCode = MissingTable
       /\ optResp.consultoriasCode = "ok"
       => /\ optResp.status = 200
          /\ \E u \in users : /\ u.email = optResp.email
                              /\ optResp.items = ConsultoriasOf(u.id)
    /\ optResp.route = "GET /consultorias/:clientId"
          /\ optResp.consultoriasCode = MissingTable =>
          optResp.status = 200 /\ optResp.items = EmptyBag
    /\ optResp.route = "GET /admin-contracts" /\ optResp.adminCode = MissingTable =>
          optResp.status = 200 /\ optResp.items = EmptyBag

\* C16 case: the store has no consultorias table and the list of a client's
\* consultations is answered with a 500
WitConsultoriasMissing ==
    /\ optResp.route = "GET /consultorias/:clientId"
    /\ optResp.consultoriasCode = MissingTable
    /\ optResp.status = 500
    /\ optResp.error = "Erro ao buscar consultorias"

-----------------------------------------------------------------------------
(* Contract renewal by the administrator: POST /admin-contracts/renovar    *)

\* lines 867-872: a date-only string (10 characters) gets 'T00:00:00Z'
\* appended; any other value is kept as sent
NormalizedDate(x) == IF x.fmt = "date" THEN [fmt |-> "utc", t |-> x.t] ELSE x

AdminContract(professor_email, contract_end) ==
    [professor_email |-> professor_email, status |-> "active",
     contract_end |-> <<contract_end>>]

\* the answers of the admin_contracts update and of the call that follows
\* it.  The update answers with the rows it changed (none when no row
\* matches), with an error, or with an error whose message says 'No rows
\* found', after which the handler inserts.
RenovarOutcomes ==
    ({"ok", "err"} \X Outcomes)
        \cup (IF BagCardinality(admin_contracts) < MaxAdminContracts
              THEN {"norows"} \X Outcomes ELSE {})

\* lines 859-922: POST /admin-contracts/renovar
Renovar(professor_email, contract_end, outs) ==
    LET base == [NoOptResp EXCEPT !.route = "POST /admin-contracts/renovar"]
    IN IF professor_email = <<>> \/ contract_end = Null
       THEN /\ optResp' = [base EXCEPT !.status = 400,
                              !.error = "professor_email e contract_end são obrigatórios"]
            /\ UNCHANGED <<users, admin_contracts>>
       ELSE LET P == ToLowerCase(professor_email)
                D == NormalizedDate(contract_end[1])
                Hit(r) == r.professor_email = P
                Renewed(r) == IF Hit(r) THEN [r EXCEPT !.contract_end = <<D>>] ELSE r
                All(r) == TRUE
                asked == [base EXCEPT !.email = P, !.contract_end = <<D>>,
                                      !.adminCode = outs[1]]
            IN /\ outs \in RenovarOutcomes
               /\ CASE outs[1] = "ok" ->
                         /\ admin_contracts' = MapRows(admin_contracts, All, Renewed)
                         /\ users' = IF outs[2] = "ok"
                                     THEN {IF u.email = P
                                           THEN [u EXCEPT !.contract_end = <<D>>]
                                           ELSE u : u \in users}
                                     ELSE users
                         /\ optResp' = [asked EXCEPT
                                           !.status = 200, !.usersCode = outs[2],
                                           !.message = "Contrato renovado com sucesso",
                                           !.items = MapRows(admin_contracts, Hit, Renewed)]
                    [] outs[1] = "norows" /\ outs[2] = "ok" ->
                         /\ admin_contracts' = admin_contracts
                                                 (+) SetToBag({AdminContract(P, D)})
                         /\ optResp' = [asked EXCEPT
                                           !.status = 200,
                                           !.message = "Contrato criado com sucesso",
                                           !.items = SetToBag({AdminContract(P, D)})]
                         /\ UNCHANGED users
                    [] OTHER ->
                         /\ optResp' = [asked EXCEPT !.status = 500,
                                                     !.error = "error.message"]
                         /\ UNCHANGED <<users, admin_contracts>>

\* professor_email of a renewal: absent, the professor p@x as typed
RenovarEmails == {<<>>, <<"P", "@", "X">>}

\* the professor p@x registers, with or without a contract date
RenovarCreates ==
    {<<<<"n">>, <<"P", "@", "X">>, <<"p", "1">>, "professor", <<>>, ce>> :
        ce \in {Null, <<[fmt |-> "date", t |-> 1]>>}}

\* contract_end of a renewal: absent, a date-only string, an ISO string
RenovarDates == {Null, <<[fmt |-> "date", t |-> MaxNow]>>, <<[fmt |-> "iso", t |-> 1]>>}

\* the contract changes made between renewals: the first user's contract
\* set to a date, served or refused by the store
RenovarPatchDates == {<<[fmt |-> "date", t |-> n]>> : n \in Times}
RenovarPatchOutcomes == {<<"ok", "ok", "ok", "ok">>, <<"err", "ok", "ok", "ok">>}

InitRenovar ==
    /\ consultorias = EmptyBag
    /\ admin_contracts \in
          {EmptyBag, SetToBag({AdminContract(<<"p", "@", "x">>, [fmt |-> "utc", t |-> 1])})}
    /\ optResp = NoOptResp

NextRenovar ==
    \/ \E e \in RenovarEmails, contract_end \in RenovarDates :
          \E outs \in RenovarOutcomes :
             /\ Renovar(e, contract_end, outs)
             /\ UNCHANGED <<alunos, mensagens, userNextId, now, patches, progresso, userResp>>
             /\ UNCHANGED consultorias
             /\ UNCHANGED notOptVars
    \/ \E f \in RenovarCreates : \E outs \in {<<"ok", "ok">>, <<"err", "ok">>} :
          CreateAluno(f[1], f[2], f[3], f[4], f[5], f[6], outs) /\ UNCHANGED notUserVars
    \/ \E contract_end \in RenovarPatchDates, outs \in RenovarPatchOutcomes :
          PatchContract(1, contract_end, <<>>, outs) /\ UNCHANGED notUserVars
    \/ \E out \in Outcomes : GetAluno(<<"1">>, out) /\ UNCHANGED notUserVars
    \/ Tick /\ UNCHANGED notUserVars

-----------------------------------------------------------------------------
(* Claims about the contract dates *)

\* a stored flag reads as blocked when it is 1; null and 0 read as not blocked
IsBlocked(u) == u.blocked = <<1>>

\* C24: the stored blocked flag of a user tracks the last write of the
\* user's contract_end.  Every request that writes contract_end (PATCH
\* /alunos/:id/contract, POST /admin-contracts/renovar, POST /alunos) leaves
\* blocked equal to the comparison of that contract_end with the time of the
\* write, and blocked changes in no other request.
InvBlockedTracksContract ==
    [][\A n \in users' :
          LET old == {o \in users : o.id = n.id}
          IN /\ /\ n.contract_end # Null
                /\ old = {} \/ \E o \in old : o.contract_end # n.contract_end
                => IsBlocked(n) = BlockedAt(n.contract_end[1], now)
             /\ \A o \in old :
                   IsBlocked(o) # IsBlocked(n) =>
                      userResp'.route = "PATCH /alunos/:id/contract"]_vars

\* C24 case: a professor whose contract had expired was renewed by the
\* administrator to a date still ahead, and is still stored as blocked
WitBlockedStale ==
    /\ optResp.route = "POST /admin-contracts/renovar"
    /\ optResp.status = 200
    /\ \E u \in users :
          /\ u.email = optResp.email
          /\ u.contract_end = optResp.contract_end
          /\ IsBlocked(u)
          /\ ~BlockedAt(u.contract_end[1], now)

\* a step of POST /admin-contracts/renovar that wrote or answered something
RenovarStep ==
    /\ optResp'.route = "POST /admin-contracts/renovar"
    /\ UNCHANGED <<now, patches, userResp, userNextId>>
    /\ ~UNCHANGED <<optResp, users, admin_contracts>>

\* C25: after a POST /admin-contracts/renovar for professor P and date D
\* answered with success, admin_contracts holds a row of P (lowercased) with
\* contract_end the normalized D, and the users row with email P has the
\* same contract_end; whether or not a row of P was in admin_contracts.
InvRenovarBoth ==
    [][RenovarStep /\ optResp'.status = 200 =>
          /\ \E r \in BagToSet(admin_contracts') :
                /\ r.professor_email = optResp'.email
                /\ r.contract_end = optResp'.contract_end
          /\ \A u \in users' :
                u.email = optResp'.email => u.contract_end = optResp'.contract_end]_vars

\* C25 case: admin_contracts had no row of the professor; the update was
\* served, matched no row, the users row took the date, the answer was a
\* success, and admin_contracts still has no row
WitRenovarNoRecord ==
    /\ optResp.route = "POST /admin-contracts/renovar"
    /\ optResp.status = 200
    /\ optResp.adminCode = "ok" /\ optResp.usersCode = "ok"
    /\ optResp.message = "Contrato renovado com sucesso"
    /\ admin_contracts = EmptyBag
    /\ \E u \in users : u.email = optResp.email /\ u.contract_end = optResp.contract_end

-----------------------------------------------------------------------------
(* Required fields: the handlers that validate their body before the store *)

\* the fields of a message as sent: absent or present
MensagemFields == {<<>>, <<"a">>}

\* lines 1229-1252: POST /mensagens
PostMensagem(de, para, mensagem, out) ==
    IF de = <<>> \/ para = <<>> \/ mensagem = <<>>
    THEN /\ userResp' = [NoUserResp EXCEPT !.route = "POST /mensagens", !.status = 400,
                            !.error = "de, para e mensagem são obrigatórios"]
         /\ UNCHANGED <<users, alunos, mensagens, userNextId, now, patches, progresso>>
    ELSE LET row == [de |-> de, para |-> para, mensagem |-> "${mensagem}"]
         IN /\ patches < MaxPatch
            /\ patches' = patches + 1
            /\ IF out = "ok"
               THEN /\ mensagens' = mensagens (+) SetToBag({row})
                    /\ userResp' = [NoUserResp EXCEPT !.route = "POST /mensagens",
                                       !.status = 200, !.sent = <<row>>]
               ELSE /\ userResp' = [NoUserResp EXCEPT !.route = "POST /mensagens",
                                       !.status = 500, !.error = "Erro ao salvar mensagem"]
                    /\ UNCHANGED mensagens
            /\ UNCHANGED <<users, alunos, userNextId, now, progresso>>

\* the bodies of POST /alunos: every field present or one of them missing
RequiredCreates ==
    {<<n, e, p, "", <<>>, Null>> :
        n \in NomeInputs, e \in {<<>>, <<"A", "@", "X">>}, p \in SenhaInputs}

\* requests taken past their validation so far
Accepted ==
    CsStarted + (userNextId - 1) + patches
        + Cardinality({r \in LoginRuns : loginReq[r].pc # "idle"})

InitRequired ==
    /\ contract_settings = EmptyBag
    /\ csSchema \in {"full", "noconstraint"}
    /\ csReq = [r \in CsSlots |-> IdleCs]
    /\ csLog = [k \in CsKeys |-> <<>>]
    /\ csResp = CsNoResp

NextRequired ==
    \/ \E p \in ProfessorEmails, a \in AlunoEmails :
          CsReject(p, a) /\ UNCHANGED notCsVars
    \/ \E f \in CsFields :
          /\ Accepted < MaxAccepted
          /\ CsStart(1, <<"P">>, <<"a">>, f) /\ UNCHANGED notCsVars
    \/ \E out \in {"ok", "err", "42P10"} : CsUpsert(1, out) /\ UNCHANGED notCsVars
    \/ \E out \in Outcomes : CsUpdate(1, out) /\ UNCHANGED notCsVars
    \/ \E out \in Outcomes : CsInsert(1, out) /\ UNCHANGED notCsVars
    \/ \E f \in RequiredCreates : \E outs \in {<<"ok", "ok">>, <<"err", "ok">>} :
          /\ Accepted < MaxAccepted \/ f[1] = <<>> \/ f[2] = <<>> \/ f[3] = <<>>
          /\ CreateAluno(f[1], f[2], f[3], f[4], f[5], f[6], outs) /\ UNCHANGED notUserVars
    \/ \E de \in MensagemFields, para \in MensagemFields, mensagem \in MensagemFields,
          out \in Outcomes :
          /\ Accepted < MaxAccepted \/ de = <<>> \/ para = <<>> \/ mensagem = <<>>
          /\ PostMensagem(de, para, mensagem, out) /\ UNCHANGED notUserVars
    \/ \E aluno_email \in {<<>>, <<" ", "A", "@", "X">>},
          outs \in {<<"ok", "ok", "ok">>, <<"err", "ok", "ok">>} :
          /\ Accepted < MaxAccepted \/ aluno_email = <<>>
          /\ ConcluirTreino(<<"7">>, aluno_email, outs) /\ UNCHANGED notUserVars
    \/ \E email \in {<<>>, <<"a", "@", "x">>}, senha \in {<<>>, <<"p", "1">>} :
          /\ Accepted < MaxAccepted
          /\ LoginStart(1, email, senha) /\ UNCHANGED notLoginVars
    \/ LoginWait(1) /\ UNCHANGED notLoginVars
    \/ \E out \in Outcomes :
          LoginSettle(1, out, <<>>) /\ UNCHANGED notLoginVars
    \/ LoginTimeout(1) /\ UNCHANGED notLoginVars
    \/ LoginLate(1) /\ UNCHANGED notLoginVars
    \/ LoginTimerLate(1) /\ UNCHANGED notLoginVars

-----------------------------------------------------------------------------
(* Claims about the required fields *)

StoreUnchanged ==
    UNCHANGED <<contract_settings, users, alunos, mensagens, progresso, curtidas,
                loginStore, consultorias, admin_contracts, contracts, posts,
                comentarios, files>>

\* C26: a request that lacks a required field is answered 400 before any
\* store access: POST /contract-settings without professor_email or
\* aluno_email, naming the first of the two that is missing, POST /alunos,
\* POST /mensagens, POST /treinos/:id/concluir and POST /login alike.  The
\* store is unchanged and no request is left waiting on the store.
InvValidationFirst ==
    [][/\ csResp' # csResp /\ csResp'.status = 400 =>
             /\ StoreUnchanged
             /\ csReq' = csReq /\ csLog' = csLog
             /\ csResp'.calls = <<>>
             /\ csResp'.asked[1] = <<>> \/ csResp'.asked[2] = <<>>
             /\ csResp'.error = IF csResp'.asked[1] = <<>>
                                THEN "professor_email é obrigatório"
                                ELSE "aluno_email é obrigatório"
       /\ /\ userResp' # userResp
          /\ userResp'.status = 400
          /\ userResp'.route \in {"POST /alunos", "POST /mensagens",
                                  "POST /treinos/:id/concluir"}
          => /\ StoreUnchanged
             /\ UNCHANGED <<userNextId, patches>>
             /\ userResp'.attempts = 0 /\ userResp'.sent = <<>>
       /\ \A r \in LoginRuns :
             /\ loginResp'[r] # loginResp[r] /\ loginResp'[r].status = 400 =>
                   /\ StoreUnchanged
                   /\ loginReq[r].pc = "idle" /\ loginReq'[r].pc = "done"
                   /\ loginReq'[r].email = <<>> \/ loginReq'[r].senha = <<>>
             /\ /\ loginReq[r].pc = "idle" /\ loginReq'[r].pc # "idle"
                /\ loginReq'[r].email = <<>> \/ loginReq'[r].senha = <<>>
                => loginResp'[r].status = 400 /\ loginReq'[r].pc = "done"]_vars

\* C26 case: after a contract-settings row was saved, a request without
\* both fields was answered 400 naming professor_email, and the row is as
\* it was
WitValidationFirst ==
    /\ csResp.status = 400
    /\ csResp.asked = <<<<>>, <<>>>>
    /\ csResp.error = "professor_email é obrigatório"
    /\ contract_settings # EmptyBag
    /\ userResp.status = 400
    /\ \E r \in LoginRuns : loginResp[r].status = 400

-----------------------------------------------------------------------------
(* Route dispatch of the GET routes under /alunos                          *)

Alunos == <<"a", "l", "u", "n", "o", "s">>
Session == <<"s", "e", "s", "s", "i", "o", "n">>

\* lines 1063, 1079, 1103: the GET routes under /alunos in the order of
\* their registration; a segment that starts with ':' is a parameter
GetRoutes ==
    <<[handler |-> "GET /alunos", pattern |-> <<Alunos>>],
      [handler |-> "GET /alunos/:id", pattern |-> <<Alunos, <<":", "i", "d">>>>],
      [handler |-> "GET /alunos/session", pattern |-> <<Alunos, Session>>]>>

\* a path matches a pattern segment by segment; a parameter takes any segment
Matches(pattern, path) ==
    /\ Len(pattern) = Len(path)
    /\ \A i \in 1..Len(pattern) : Head(pattern[i]) = ":" \/ pattern[i] = path[i]

\* the first registered route the path matches, 0 when there is none
RouteOf(path) ==
    LET hits == {i \in DOMAIN GetRoutes : Matches(GetRoutes[i].pattern, path)}
    IN IF hits = {} THEN 0 ELSE CHOOSE i \in hits : \A j \in hits : i <= j

\* lines 1063-1076: GET /alunos
ListAlunos(out, data) ==
    /\ userResp' = IF out = "ok"
                   THEN [NoUserResp EXCEPT !.route = "GET /alunos", !.status = 200,
                                           !.rows = data]
                   ELSE [NoUserResp EXCEPT !.route = "GET /alunos", !.status = 500,
                                           !.error = "Erro ao buscar alunos"]
    /\ UNCHANGED <<users, alunos, mensagens, userNextId, now, patches, progresso>>

\* lines 1103-1111: GET /alunos/session
SessionProbe ==
    /\ userResp' = [NoUserResp EXCEPT !.route = "GET /alunos/session", !.status = 200]
    /\ UNCHANGED <<users, alunos, mensagens, userNextId, now, patches, progresso>>

\* a GET request is handled by the first route its path matches
GetPath(path, out, data) ==
    LET n == RouteOf(path)
    IN CASE n = 0 ->
              /\ userResp' = [NoUserResp EXCEPT !.route = "none", !.status = 404]
              /\ UNCHANGED <<users, alunos, mensagens, userNextId, now, patches, progresso>>
         [] n # 0 /\ GetRoutes[n].handler = "GET /alunos" -> ListAlunos(out, data)
         [] n # 0 /\ GetRoutes[n].handler = "GET /alunos/:id" -> GetAluno(path[2], out)
         [] n # 0 /\ GetRoutes[n].handler = "GET /alunos/session" -> SessionProbe

\* the paths requested: the list, a user by id, the session probe, a path
\* of another resource
GetPaths ==
    {<<Alunos>>, <<Alunos, Session>>, <<Session>>} \cup {<<Alunos, p>> : p \in IdParams}

NextRoutes ==
    \/ \E path \in GetPaths, out \in Outcomes :
          \E data \in Listings({u \in users : u.tipo = "aluno"}) :
             GetPath(path, out, data) /\ UNCHANGED notUserVars
    \/ \E id \in UserIds, out \in Outcomes : DeleteAluno(id, out) /\ UNCHANGED notUserVars
    \/ \E tipo \in {"", "professor"}, outs \in {<<"ok", "ok">>, <<"err", "ok">>} :
          CreateAluno(<<"n">>, <<"N", "@", "X">>, <<"p", "1">>, tipo, <<>>, Null, outs)
             /\ UNCHANGED notUserVars

-----------------------------------------------------------------------------
(* Claims about the route dispatch *)

\* C28: a GET /alunos/session request is handled by the GET /alunos/session
\* handler and answered 200 with an empty object; the GET /alunos/:id
\* route registered before it does not take it.
InvSessionProbe ==
    userResp.id = Session =>
       userResp.route = "GET /alunos/session" /\ userResp.status = 200

\* C28 case: the session probe was taken by GET /alunos/:id with the id
\* 'session' and refused
WitSessionCaptured ==
    /\ userResp.id = Session
    /\ userResp.route = "GET /alunos/:id"
    /\ userResp.status = 400
    /\ userResp.error = "id inválido"

-----------------------------------------------------------------------------
(* The shop: GET /produtos and POST /produtos                               *)

NoProduto == [id |-> 0, ordem |-> 0]
NoProdReq == [pc |-> "idle", ultimoProduto |-> <<>>, largest |-> 0, served |-> FALSE]
NoProdResp == [status |-> 0, error |-> "", data |-> NoProduto, rows |-> <<>>,
               largest |-> 0, served |-> FALSE]

ProdSlots == {1, 2}

\* the largest ordem of the table, 0 when it has no row
LargestOrdem(table) ==
    IF table = {} THEN 0
    ELSE CHOOSE n \in {p.ordem : p \in table} : \A p \in table : p.ordem <= n

\* the rows of the table and the creates under way
ProdStarted ==
    Cardinality(produtos_loja)
        + Cardinality({r \in ProdSlots : prodReq[r].pc \in {"reading", "inserting"}})

\* lines 1752-1767: GET /produtos, the rows by ascending ordem; rows of the
\* same ordem come in an order the store chooses
GetProdutos(r, out) ==
    /\ prodReq[r].pc = "idle"
    /\ \E q \in Listings(produtos_loja) :
          /\ \A i, j \in 1..Len(q) : i < j => q[i].ordem <= q[j].ordem
          /\ prodResp' = [prodResp EXCEPT ![r] =
                IF out = "ok"
                THEN [NoProdResp EXCEPT !.status = 200, !.rows = q]
                ELSE [NoProdResp EXCEPT !.status = 500, !.error = "Erro ao listar produtos"]]
    /\ UNCHANGED <<produtos_loja, prodReq>>

\* lines 1772-1776: a POST /produtos that lacks a field
PostProdutoReject(r, titulo, imagem_url, link_mercadolivre) ==
    /\ prodReq[r].pc = "idle"
    /\ titulo = <<>> \/ imagem_url = <<>> \/ link_mercadolivre = <<>>
    /\ prodResp' = [prodResp EXCEPT ![r] =
          [NoProdResp EXCEPT !.status = 400, !.error = "Título, imagem e link são obrigatórios"]]
    /\ UNCHANGED <<produtos_loja, prodReq>>

\* lines 1772-1784: a complete POST /produtos asks for the row of the
\* largest ordem
PostProdutoStart(r, titulo, imagem_url, link_mercadolivre) ==
    /\ prodReq[r].pc = "idle"
    /\ titulo # <<>> /\ imagem_url # <<>> /\ link_mercadolivre # <<>>
    /\ ProdStarted < MaxProdutos
    /\ prodReq' = [prodReq EXCEPT ![r] = [NoProdReq EXCEPT !.pc = "reading"]]
    /\ prodResp' = [prodResp EXCEPT ![r] = NoProdResp]
    /\ UNCHANGED produtos_loja

\* lines 1779-1784: the read comes back; .single() gives no data when the
\* table is empty or the read fails, and the error is not looked at
PostProdutoRead(r, out) ==
    /\ prodReq[r].pc = "reading"
    /\ prodReq' = [prodReq EXCEPT ![r] =
          [pc |-> "inserting",
           ultimoProduto |-> IF out = "ok" /\ produtos_loja # {}
                             THEN <<LargestOrdem(produtos_loja)>> ELSE <<>>,
           largest |-> LargestOrdem(produtos_loja),
           served |-> out = "ok"]]
    /\ UNCHANGED <<produtos_loja, prodResp>>

\* line 1786: (ultimoProduto?.ordem || 0) + 1
NovaOrdem(ultimoProduto) ==
    (IF ultimoProduto = <<>> THEN 0 ELSE ultimoProduto[1]) + 1

\* lines 1788-1803: the insert and the answer
PostProdutoInsert(r, out) ==
    /\ prodReq[r].pc = "inserting"
    /\ LET row == [id |-> Cardinality(produtos_loja) + 1,
                   ordem |-> NovaOrdem(prodReq[r].ultimoProduto)]
       IN IF out = "ok"
          THEN /\ produtos_loja' = produtos_loja \cup {row}
               /\ prodResp' = [prodResp EXCEPT ![r] =
                     [NoProdResp EXCEPT !.status = 200, !.data = row,
                                        !.largest = prodReq[r].largest,
                                        !.served = prodReq[r].served]]
          ELSE /\ prodResp' = [prodResp EXCEPT ![r] =
                     [NoProdResp EXCEPT !.status = 500, !.error = "Erro ao criar produto"]]
               /\ UNCHANGED produtos_loja
    /\ prodReq' = [prodReq EXCEPT ![r] = NoProdReq]

\* the shop while the other routes are exercised
PinProdutos ==
    /\ produtos_loja = {}
    /\ prodReq = [r \in ProdSlots |-> NoProdReq]
    /\ prodResp = [r \in ProdSlots |-> NoProdResp]

\* the shop when products start to be created: empty, or with one product
\* whose ordem a PUT /produtos/:id has set to 5
InitProdutos ==
    /\ produtos_loja \in {{}, {[id |-> 1, ordem |-> 5]}}
    /\ prodReq = [r \in ProdSlots |-> NoProdReq]
    /\ prodResp = [r \in ProdSlots |-> NoProdResp]

ProdutoFields == {<<>>, <<"t">>}

NextProdutos ==
    \/ \E r \in ProdSlots, out \in Outcomes : GetProdutos(r, out) /\ UNCHANGED notProdVars
    \/ \E r \in ProdSlots, t, i, l \in ProdutoFields :
          PostProdutoReject(r, t, i, l) /\ UNCHANGED notProdVars
    \/ \E r \in ProdSlots, t, i, l \in ProdutoFields :
          PostProdutoStart(r, t, i, l) /\ UNCHANGED notProdVars
    \/ \E r \in ProdSlots, out \in Outcomes : PostProdutoRead(r, out) /\ UNCHANGED notProdVars
    \/ \E r \in ProdSlots, out \in Outcomes : PostProdutoInsert(r, out) /\ UNCHANGED notProdVars

-----------------------------------------------------------------------------
(* Claims about the shop *)

\* C30: every product POST /produtos creates gets ordem equal to 1 plus the
\* largest ordem the table held when the request read it, and no two
\* products of the table share an ordem, under every interleaving of the
\* requests.
InvOrdemDistinct ==
    /\ \A r \in ProdSlots :
          prodResp[r].status = 200 /\ prodResp[r].data # NoProduto /\ prodResp[r].served =>
             prodResp[r].data.ordem = prodResp[r].largest + 1
    /\ \A a, b \in produtos_loja : a.id # b.id => a.ordem # b.ordem

\* the part of C30 that holds: a product created with its read served gets
\* 1 plus the largest ordem of the table as the request read it
InvOrdemNext ==
    \A r \in ProdSlots :
       prodResp[r].status = 200 /\ prodResp[r].data # NoProduto /\ prodResp[r].served =>
          prodResp[r].data.ordem = prodResp[r].largest + 1

\* C30 case: two requests, both served by the store on every call and both
\* answered 200, created two products of the same ordem
WitOrdemShared ==
    /\ \A r \in ProdSlots : prodResp[r].status = 200 /\ prodResp[r].served
    /\ prodResp[1].data # NoProduto /\ prodResp[2].data # NoProduto
    /\ prodResp[1].data.id # prodResp[2].data.id
    /\ prodResp[1].data.ordem = prodResp[2].data.ordem
    /\ {prodResp[1].data, prodResp[2].data} \subseteq produtos_loja

-----------------------------------------------------------------------------
(* Specifications: one per group of handlers; the tables of the other      *)
(* groups stay as first created                                             *)

LikesInit == InitLikes /\ PinSettings /\ InitUsers /\ PinLogin /\ PinFeed /\ PinStub /\ PinContracts /\ PinOptional /\ PinProdutos
SpecLikes == LikesInit /\ [][NextLikes]_vars

SettingsInit == InitSettings /\ InitLikes /\ InitUsers /\ PinLogin /\ PinFeed /\ PinStub /\ PinContracts /\ PinOptional /\ PinProdutos
SpecSettings == SettingsInit /\ [][NextSettings]_vars

AlunosInit == InitUsers /\ InitLikes /\ PinSettings /\ PinLogin /\ PinFeed /\ PinStub /\ PinContracts /\ PinOptional /\ PinProdutos
SpecAlunos == AlunosInit /\ [][NextAlunos]_vars

ContractInit == InitContract /\ InitLikes /\ PinSettings /\ PinLogin /\ PinFeed /\ PinStub /\ PinContracts /\ PinOptional /\ PinProdutos
SpecContract == ContractInit /\ [][NextContract]_vars

NotifyInit == InitContract /\ InitLikes /\ PinSettings /\ PinLogin /\ PinFeed /\ PinStub /\ PinContracts /\ PinOptional /\ PinProdutos
SpecNotify == NotifyInit /\ [][NextNotify]_vars

LoginInit == InitLogin /\ InitLikes /\ PinSettings /\ InitUsers /\ PinFeed /\ PinStub /\ PinContracts /\ PinOptional /\ PinProdutos
SpecLogin == LoginInit /\ [][NextLogin]_vars

FeedInit == InitFeed /\ InitFeedLikes /\ PinSettings /\ InitUsers /\ PinLogin /\ PinStub /\ PinContracts /\ PinOptional /\ PinProdutos
SpecFeed == FeedInit /\ [][NextFeed]_vars

StubInit ==
    PinStub /\ InitLikes /\ PinSettings /\ InitUsers /\ PinLogin /\ PinFeed /\ PinContracts
        /\ PinOptional /\ PinProdutos
SpecStub == StubInit /\ [][NextStub]_vars

ContractsInit ==
    InitContracts /\ InitLikes /\ PinSettings /\ InitUsers /\ PinLogin /\ PinFeed /\ PinStub
        /\ PinOptional /\ PinProdutos
SpecContracts == ContractsInit /\ [][NextContracts]_vars

OptionalInit ==
    InitOptional /\ InitContract /\ InitLikes /\ PinSettings /\ PinLogin /\ PinFeed /\ PinStub
        /\ PinContracts /\ PinProdutos
SpecOptional == OptionalInit /\ [][NextOptional]_vars

RenovarInit ==
    InitRenovar /\ InitUsers /\ InitLikes /\ PinSettings /\ PinLogin /\ PinFeed /\ PinStub
        /\ PinContracts /\ PinProdutos
SpecRenovar == RenovarInit /\ [][NextRenovar]_vars

RoutesInit ==
    InitUsers /\ InitLikes /\ PinSettings /\ PinLogin /\ PinFeed /\ PinStub /\ PinContracts
        /\ PinOptional /\ PinProdutos
SpecRoutes == RoutesInit /\ [][NextRoutes]_vars

ProdutosInit ==
    InitProdutos /\ InitLikes /\ InitUsers /\ PinSettings /\ PinLogin /\ PinFeed /\ PinStub
        /\ PinContracts /\ PinOptional
SpecProdutos == ProdutosInit /\ [][NextProdutos]_vars

RequiredInit ==
    InitRequired /\ InitLikes /\ InitUsers /\ PinLogin /\ PinFeed /\ PinStub /\ PinContracts
        /\ PinOptional /\ PinProdutos
SpecRequired == RequiredInit /\ [][NextRequired]_vars

=============================================================================
